---- MODULE Spec2Model ----
(***************************************************************************)
(* A model of the scraplirs Channel: the background Read Loop feeding the  *)
(* byte Queue, Channel.read, the read-until primitives, in-band            *)
(* authentication, send_input and send_interactive.                        *)
(*                                                                         *)
(* Bytes are modelled by one-character symbols.  A symbol stands for one   *)
(* byte, except the word symbols, which stand for a whole literal text     *)
(* that the device sends in one piece:                                     *)
(*   "r", "m"   a hostname byte (class [a-z\d.\-@()/:])                    *)
(*   "#", ">"   a prompt terminator byte (class [#>$])                     *)
(*   "\n", "\r" line feed and carriage return (both in \s)                 *)
(*   "!"        any other printable byte                                   *)
(*   "e"        the ANSI escape byte 0x1b, "["  the byte '['               *)
(*   "U"        the text "Username:"       "P"  the text "Password:"       *)
(*   "K"        the text "Enter passphrase for key"                        *)
(*   "V", "W", "Q"  texts only a user-configured pattern matches            *)
(*   "c", "t"   the texts "(config)" and "(tcl)" inside a prompt           *)
(*   "enable", "disable", "conf", "end", "tclsh", "tclquit", "show",       *)
(*   "line1", "line2"  the commands and config lines of those names        *)
(***************************************************************************)
EXTENDS Integers, Sequences, FiniteSets, TLC

VARIABLES
    queue,        \* Queue.queue: the VecDeque of chunks
    depth,        \* Queue.depth
    errq,         \* the read error channel (Sender/Receiver of ScrapliError)
    doneq,        \* the read done channel
    rlpc,         \* position of the Read Loop thread
    rlbuf,        \* the Read Loop's local b
    topen,        \* whether the Transport is open
    written,      \* every write the Transport received, in order
    reads,        \* number of Transport reads that returned data or failed
    dev,          \* the device: the chunks it may send, how many, whether reads
                  \* can fail, whether the histories are recorded (fixed)
    now,          \* the wall clock (Utc::now)
    args,         \* Channel.args
    opt,          \* the OperationOptions of the call in progress
    op,           \* the consumer's operation in progress
    pc,           \* the consumer's position in it
    result,       \* the operation's return value
    loc,          \* the operation's local variables
    produced,     \* history: non-empty chunks the Read Loop got, after stripping
    delivered,    \* history: non-empty chunks returned by Channel.read
    drv,          \* the network Driver: its args, current_privilege_level,
                  \* privilege_level_graph, and the generic driver's callbacks
    net           \* the network device behind the Channel: the level it is at,
                  \* and the history of callbacks and closes

vars == <<queue, depth, errq, doneq, rlpc, rlbuf, topen, written, reads,
          dev, now, args, opt, op, pc, result, loc, produced, delivered,
          drv, net>>

chanVars == <<queue, depth, errq, doneq, rlpc, rlbuf, topen, reads, produced>>
\* what no Channel operation changes
cfgVars == <<dev, args, opt, drv, net>>
\* what no step of the user thread changes, Channel.close apart
rlSide == <<doneq, rlpc, rlbuf, topen, reads, produced, now, cfgVars, op>>

(***************************************************************************)
(* Bounds of the model.                                                    *)
(***************************************************************************)
MaxReads == 3
MaxTime == 3
MaxCalls == 4

(***************************************************************************)
(* Byte classes and constants.                                             *)
(***************************************************************************)
NEW_LINE_BYTE == "\n"
ANSI_ESCAPE_BYTE == "e"
USER_SEEN_MAX == 2
PASSWORD_SEEN_MAX == 2
PASSPHRASE_SEEN_MAX == 2
MaxHostLen == 48

HostClass == {"r", "m"}
PromptEndClass == {"#", ">"}
WhiteClass == {"\n", "\r"}

Range(s) == {s[i] : i \in 1..Len(s)}

(***************************************************************************)
(* Regex values.  A Regex is a record naming the pattern; IsMatch is       *)
(* Regex::is_match restricted to the model's symbols.                      *)
(***************************************************************************)
Pat(k, t) == [kind |-> k, tok |-> t]
default_comms_prompt_pattern == Pat("prompt", "")
default_auth_username_pattern == Pat("username", "")
default_auth_password_pattern == Pat("password", "")
default_auth_passphrase_pattern == Pat("passphrase", "")
Literal(t) == Pat("literal", t)

\* (?im)^[a-z\d.\-@()/:]{1,48}[#>$]\s*$
PromptMatchAt(b, i, j) ==
    /\ i < j
    /\ j - i <= MaxHostLen
    /\ (i = 1 \/ b[i - 1] = NEW_LINE_BYTE)
    /\ \A k \in i..(j - 1) : b[k] \in HostClass
    /\ b[j] \in PromptEndClass
    /\ \E k \in j..Len(b) :
          /\ \A m \in (j + 1)..k : b[m] \in WhiteClass
          /\ (k = Len(b) \/ b[k + 1] = NEW_LINE_BYTE)

PromptMatch(b) == \E i \in 1..Len(b) : \E j \in i..Len(b) : PromptMatchAt(b, i, j)

\* (?im)^(.*username:)|(.*login:)\s?$
UsernameMatch(b) == "U" \in Range(b)

\* (?im)(.*@.*)?password:\s?$
PasswordMatch(b) ==
    \E j \in 1..Len(b) :
       /\ b[j] = "P"
       /\ \/ j = Len(b)
          \/ b[j + 1] = NEW_LINE_BYTE
          \/ /\ b[j + 1] \in WhiteClass
             /\ (j + 1 = Len(b) \/ b[j + 2] = NEW_LINE_BYTE)

\* (?i)enter passphrase for key
PassphraseMatch(b) == "K" \in Range(b)

RECURSIVE IsMatch(_, _)
\* a "joined" pattern is the alternation p1|p2|... of the patterns in tok
IsMatch(p, b) ==
    CASE p.kind = "prompt" -> PromptMatch(b)
      [] p.kind = "joined" -> \E i \in 1..Len(p.tok) : IsMatch(p.tok[i], b)
      [] p.kind = "username" -> UsernameMatch(b)
      [] p.kind = "password" -> PasswordMatch(b)
      [] p.kind = "passphrase" -> PassphraseMatch(b)
      [] OTHER -> p.tok \in Range(b)

AnyMatch(ps, b) == \E i \in 1..Len(ps) : IsMatch(ps[i], b)

(***************************************************************************)
(* strip_ansi: ansi_pattern().replace_all(b, vec![]).  With the model's    *)
(* symbols the pattern matches the escape byte, then any number of bytes   *)
(* of its first class (here "#"), then one byte of its final class (here   *)
(* "r" or "m"); the alternative ending in BEL never matches.               *)
(***************************************************************************)
AnsiFirstClass == {"#"}
AnsiFinalClass == {"r", "m"}

RECURSIVE AnsiMatchEnd(_, _)
\* with i just after the escape byte: the index of the match's last byte, or 0
AnsiMatchEnd(b, i) ==
    IF i > Len(b) THEN 0
    ELSE IF b[i] \in AnsiFinalClass THEN i
    ELSE IF b[i] \in AnsiFirstClass THEN AnsiMatchEnd(b, i + 1)
    ELSE 0

RECURSIVE StripFrom(_, _)
StripFrom(b, i) ==
    IF i > Len(b) THEN <<>>
    ELSE IF b[i] = ANSI_ESCAPE_BYTE /\ AnsiMatchEnd(b, i + 1) > 0
         THEN StripFrom(b, AnsiMatchEnd(b, i + 1) + 1)
         ELSE <<b[i]>> \o StripFrom(b, i + 1)

strip_ansi(b) == StripFrom(b, 1)

(***************************************************************************)
(* The Queue.                                                              *)
(***************************************************************************)
\* mutant of requeue: push_back instead of push_front
requeue_back(q, b) == Append(q, b)
requeue(q, b) == <<b>> \o q
\* mutant of enqueue: push_front instead of push_back
enqueue_front(q, b) == <<b>> \o q
enqueue(q, b) == Append(q, b)
\* mutant of dequeue: pop_back instead of pop_front
dequeue_back(q) == [val |-> q[Len(q)], rest |-> SubSeq(q, 1, Len(q) - 1)]
dequeue(q) == [val |-> Head(q), rest |-> Tail(q)]

(***************************************************************************)
(* Channel::read.  try_recv on the error channel first: a pending error is *)
(* returned, a disconnected channel (the Read Loop has returned and        *)
(* dropped the sender) is an error; otherwise one chunk is dequeued, or    *)
(* the empty chunk when the depth is zero.                                 *)
(***************************************************************************)
\* mutant of ReadErr: the error channel is drained but what it held is dropped
ReadErrDropped ==
    IF rlpc = "exited" THEN "disconnected" ELSE "none"

ReadErr ==
    IF errq # <<>> THEN Head(errq)
    ELSE IF rlpc = "exited" THEN "disconnected"
    ELSE "none"

ReadOk == ReadErr = "none"

ReadNb == IF ReadOk /\ depth > 0 THEN dequeue(queue).val ELSE <<>>

\* mutant of ChannelRead: the front chunk is dequeued whether or not an
\* error is returned
ChannelReadDequeuesAlways ==
    /\ errq' = IF errq # <<>> THEN Tail(errq) ELSE errq
    /\ queue' = IF depth > 0 THEN dequeue(queue).rest ELSE queue
    /\ depth' = IF depth > 0 THEN depth - 1 ELSE depth
    /\ delivered' = IF dev.hist /\ ReadNb # <<>> THEN Append(delivered, ReadNb)
                    ELSE delivered

ChannelRead ==
    /\ errq' = IF errq # <<>> THEN Tail(errq) ELSE errq
    /\ queue' = IF ReadOk /\ depth > 0 THEN dequeue(queue).rest ELSE queue
    /\ depth' = IF ReadOk /\ depth > 0 THEN depth - 1 ELSE depth
    /\ delivered' = IF dev.hist /\ ReadNb # <<>> THEN Append(delivered, ReadNb)
                    ELSE delivered

(***************************************************************************)
(* The Read Loop, Channel::_read.                                          *)
(***************************************************************************)
\* try_recv on the done channel: stop on a signal or on a dropped sender
RL_CheckDone ==
    /\ rlpc = "check"
    /\ IF doneq # <<>>
       THEN /\ rlpc' = "exited"
            /\ doneq' = Tail(doneq)
       ELSE /\ rlpc' = "read"
            /\ UNCHANGED doneq
    /\ UNCHANGED <<queue, depth, errq, rlbuf, topen, written, reads, now,
                   produced, delivered, cfgVars, op, pc, result, loc>>

\* transport.lock(); read(): nothing available
RL_ReadEmpty ==
    /\ rlpc = "read"
    /\ rlpc' = "check"
    /\ UNCHANGED <<queue, depth, errq, doneq, rlbuf, topen, written, reads, now,
                   produced, delivered, cfgVars, op, pc, result, loc>>

\* transport.lock(); read(): a chunk of device output
RL_ReadData ==
    /\ rlpc = "read"
    /\ topen
    /\ reads < dev.maxReads
    /\ \E c \in dev.chunks :
          LET b == IF ANSI_ESCAPE_BYTE \in Range(c) THEN strip_ansi(c) ELSE c
          IN /\ rlbuf' = b
             /\ produced' = IF dev.hist /\ b # <<>> THEN Append(produced, b)
                            ELSE produced
    /\ rlpc' = "enqueue"
    /\ reads' = reads + 1
    /\ UNCHANGED <<queue, depth, errq, doneq, topen, written, now,
                   delivered, cfgVars, op, pc, result, loc>>

\* transport.lock(); read() fails: publish the error, sleep, poll again
RL_ReadError ==
    /\ rlpc = "read"
    /\ dev.errors
    /\ reads < dev.maxReads
    /\ errq' = Append(errq, "read_error")
    /\ rlpc' = "check"
    /\ reads' = reads + 1
    /\ UNCHANGED <<queue, depth, doneq, rlbuf, topen, written, now,
                   produced, delivered, cfgVars, op, pc, result, loc>>

\* queue.lock(); enqueue(b); sleep
RL_Enqueue ==
    /\ rlpc = "enqueue"
    /\ queue' = enqueue(queue, rlbuf)
    /\ depth' = depth + 1
    /\ rlbuf' = <<>>
    /\ rlpc' = "check"
    /\ UNCHANGED <<errq, doneq, topen, written, reads, now,
                   produced, delivered, cfgVars, op, pc, result, loc>>

ReadLoop == RL_CheckDone \/ RL_ReadEmpty \/ RL_ReadData \/ RL_ReadError \/ RL_Enqueue

\* the wall clock advances
\* the clock is capped at MaxTime, except that it always reaches the deadline
\* of a send call that is under way
DeadlineAhead ==
    /\ op \in {"send_input", "send_interactive"}
    /\ pc \notin {"si_write", "sx_start", "done"}
    /\ now < loc.deadline

Tick ==
    /\ now < MaxTime \/ DeadlineAhead
    /\ now' = now + 1
    /\ UNCHANGED <<chanVars, written, delivered, cfgVars, op, pc, result, loc>>

(***************************************************************************)
(* Initial state shared by the specifications: the Channel has been        *)
(* constructed and open() has started the Read Loop.                       *)
(***************************************************************************)
DefaultArgs ==
    [auth_bypass |-> FALSE,
     prompt_search_depth |-> 4,
     prompt_pattern |-> default_comms_prompt_pattern,
     return_char |-> <<NEW_LINE_BYTE>>,
     username_pattern |-> default_auth_username_pattern,
     password_pattern |-> default_auth_password_pattern,
     passphrase_pattern |-> default_auth_passphrase_pattern,
     timeout_ops |-> 2]

DefaultOptions ==
    [strip_prompt |-> TRUE,
     eager |-> FALSE,
     timeout |-> <<>>,
     complete_patterns |-> <<>>,
     interim_prompt_patterns |-> <<>>]

NoLoc == [calls |-> 0]

\* the Transport and the device behind it; auth_type, user, password and
\* passphrase are the Transport's in_channel_auth_data
Device(chunks, n, errors, hist) ==
    [chunks |-> chunks, maxReads |-> n, errors |-> errors, hist |-> hist,
     auth_type |-> "Telnet", user |-> <<"usr">>, password |-> <<"pwd">>,
     private_key_passphrase |-> <<"pph">>]

Ok(v) == [kind |-> "ok", val |-> v, msg |-> ""]
Err(m) == [kind |-> "err", val |-> <<>>, msg |-> m]
NoResult == [kind |-> "none", val |-> <<>>, msg |-> ""]

\* a Channel used without a network Driver
NoDriver == [current_privilege_level |-> ""]

NoNet == [level |-> ""]

InitNoDriver == drv = NoDriver /\ net = NoNet

InitChannel ==
    /\ queue = <<>>
    /\ depth = 0
    /\ errq = <<>>
    /\ doneq = <<>>
    /\ rlpc = "check"
    /\ rlbuf = <<>>
    /\ topen = TRUE
    /\ written = <<>>
    /\ reads = 0
    /\ now = 0
    /\ produced = <<>>
    /\ delivered = <<>>
    /\ result = NoResult

(***************************************************************************)
(* Spec: the Read Loop against a consumer that calls Channel.read and      *)
(* finally Channel.close.                                                  *)
(***************************************************************************)
ReadChunks == {<<"r">>, <<"#">>, <<"e", "r">>, <<"e", "r", "!">>}

Init ==
    /\ InitChannel
    /\ InitNoDriver
    /\ dev = Device(ReadChunks, MaxReads, TRUE, TRUE)
    /\ args = DefaultArgs
    /\ opt = DefaultOptions
    /\ op = "read"
    /\ pc = "idle"
    /\ loc = NoLoc

\* one call of Channel.read by the user thread
CallRead ==
    /\ op = "read"
    /\ pc \in {"idle", "closed"}
    /\ loc.calls < MaxCalls
    /\ ChannelRead
    /\ result' = IF ReadOk THEN Ok(ReadNb) ELSE Err(ReadErr)
    /\ loc' = [loc EXCEPT !.calls = @ + 1]
    /\ UNCHANGED <<doneq, rlpc, rlbuf, topen, written, reads, now, produced,
                   cfgVars, op, pc>>

\* Channel.close, first half: send the done signal
CloseSignal ==
    /\ op = "read"
    /\ pc = "idle"
    /\ doneq' = Append(doneq, TRUE)
    /\ pc' = "closing"
    /\ UNCHANGED <<queue, depth, errq, rlpc, rlbuf, topen, written, reads, now,
                   produced, delivered, cfgVars, op, result, loc>>

\* Channel.close, second half: transport.lock(); close()
CloseTransport ==
    /\ op = "read"
    /\ pc = "closing"
    /\ topen' = FALSE
    /\ pc' = "closed"
    /\ UNCHANGED <<queue, depth, errq, doneq, rlpc, rlbuf, written, reads, now,
                   produced, delivered, cfgVars, op, result, loc>>

Next == ReadLoop \/ CallRead \/ CloseSignal \/ CloseTransport

Spec == Init /\ [][Next]_vars

NonEmpty(q) == SelectSeq(q, LAMBDA c : c # <<>>)

InFlight == IF rlpc = "enqueue" /\ rlbuf # <<>> THEN <<rlbuf>> ELSE <<>>

\* C1: every non-empty chunk the Transport returned to the Read Loop (after
\* ANSI stripping) is delivered by Channel.read exactly once and in
\* Transport-return order: what has been delivered, followed by what is
\* still queued and by the chunk the Read Loop is about to enqueue, is the
\* sequence the Transport returned, in every interleaving.
C1_ExactlyOnceInOrder ==
    delivered \o NonEmpty(queue) \o InFlight = produced

\* a stripped chunk and a plain chunk, both delivered, one still queued
C1_Witness ==
    /\ Len(delivered) = 2
    /\ delivered[1] = <<"!">>
    /\ Len(produced) = 3
    /\ depth = 1

(***************************************************************************)
(* The read-until primitives.                                              *)
(***************************************************************************)
MinOf(S) == CHOOSE x \in S : \A y \in S : x <= y

\* keep the last prompt_search_depth bytes, cut before their first line feed
process_read_buf(rb) ==
    IF Len(rb) <= args.prompt_search_depth THEN rb
    ELSE LET prb == SubSeq(rb, Len(rb) - args.prompt_search_depth + 1, Len(rb))
             nls == {i \in 1..Len(prb) : prb[i] = NEW_LINE_BYTE}
             partition_index == IF nls = {} THEN 0 ELSE MinOf(nls) - 1
         IN IF partition_index > 0
            THEN SubSeq(prb, partition_index + 1, Len(prb))
            ELSE prb

Checked(found, err, rb) == [found |-> found, err |-> err, rb |-> rb]

\* the four read-and-check steps, as functions of the state Channel.read sees
read_and_check_for_prompt(old_rb) ==
    IF ~ReadOk THEN Checked(FALSE, ReadErr, <<>>)
    ELSE IF ReadNb = <<>> THEN Checked(FALSE, "none", old_rb)
    ELSE LET rb == old_rb \o process_read_buf(ReadNb)
         IN Checked(IsMatch(args.prompt_pattern, rb), "none", rb)

read_and_check_for_any_prompt(old_rb, prompts) ==
    IF ~ReadOk THEN Checked(FALSE, ReadErr, <<>>)
    ELSE IF ReadNb = <<>> THEN Checked(FALSE, "none", old_rb)
    ELSE LET rb == old_rb \o process_read_buf(ReadNb)
         IN Checked(AnyMatch(prompts, rb), "none", rb)

\* read_until_prompt and read_until_any_prompt declare `let rb` outside the
\* loop and bind the step's result to a new `let rb` inside it: the buffer
\* handed to the next step is the outer one, which stays empty
read_until_carry(outer_rb, step_rb) == outer_rb

(***************************************************************************)
(* In-band authentication, run by Channel::open.                           *)
(***************************************************************************)
seen_exceeded_late(count, max) == count > max + 1
seen_exceeded(count, max) == count > max

AuthWatchList ==
    IF dev.auth_type = "Telnet"
    THEN <<args.prompt_pattern, args.username_pattern, args.password_pattern>>
    ELSE <<args.prompt_pattern, args.password_pattern, args.passphrase_pattern>>

\* the patterns the scripts test the buffer with, after the prompt pattern
AuthFirstPattern ==
    IF dev.auth_type = "Telnet" THEN default_auth_username_pattern
    ELSE default_auth_password_pattern

AuthSecondPattern ==
    IF dev.auth_type = "Telnet" THEN default_auth_password_pattern
    ELSE default_auth_passphrase_pattern

AuthFirstKind == IF dev.auth_type = "Telnet" THEN "user" ELSE "password"
AuthSecondKind == IF dev.auth_type = "Telnet" THEN "password" ELSE "passphrase"

SeenMax(kind) ==
    CASE kind = "user" -> USER_SEEN_MAX
      [] kind = "password" -> PASSWORD_SEEN_MAX
      [] kind = "passphrase" -> PASSPHRASE_SEEN_MAX

SeenMsg(kind) ==
    CASE kind = "user" -> "user prompt seen multiple times, assuming authentication failed"
      [] kind = "password" -> "password prompt seen multiple times, assuming authentication failed"
      [] kind = "passphrase" -> "private key passphrase prompt seen multiple times, assuming authentication failed"

Credential(kind) ==
    CASE kind = "user" -> dev.user
      [] kind = "password" -> dev.password
      [] kind = "passphrase" -> dev.private_key_passphrase

AuthLoc ==
    [rb |-> <<>>, outer |-> <<>>, seen |-> [user |-> 0, password |-> 0, passphrase |-> 0],
     cred |-> "", sightings |-> 0, last |-> <<>>, started |-> 0,
     watched |-> [user |-> 0, password |-> 0, passphrase |-> 0],
     consumed |-> <<>>]

\* history: which watched credential prompt, by the configured patterns, the
\* watch returned on ("" for the device prompt)
CfgPattern(kind) ==
    CASE kind = "user" -> args.username_pattern
      [] kind = "password" -> args.password_pattern
      [] kind = "passphrase" -> args.passphrase_pattern

WatchedKind(nb) ==
    IF IsMatch(args.prompt_pattern, nb) THEN ""
    ELSE IF IsMatch(CfgPattern(AuthFirstKind), nb) THEN AuthFirstKind
    ELSE IF IsMatch(CfgPattern(AuthSecondKind), nb) THEN AuthSecondKind
    ELSE ""

\* history: what the script has taken from the queue since it last answered
AuthRead(l) == [l EXCEPT !.consumed = @ \o process_read_buf(ReadNb)]

Sighted(l, nb) ==
    IF WatchedKind(nb) = ""
    THEN [AuthRead(l) EXCEPT !.sightings = @ + 1, !.last = nb]
    ELSE [AuthRead(l) EXCEPT !.sightings = @ + 1, !.last = nb,
                             !.watched[WatchedKind(nb)] = @ + 1]

\* Channel::open after the Read Loop has been spawned
OpenStart ==
    /\ op = "open"
    /\ pc = "open"
    /\ IF args.auth_bypass
       THEN /\ pc' = "done"
            /\ result' = Ok(<<>>)
       ELSE /\ pc' = "auth_watch"
            /\ UNCHANGED result
    /\ UNCHANGED <<queue, depth, errq, written, delivered, loc, rlSide>>

\* the script's step on a buffer rb (nb just appended) that matches the
\* script's pattern for `kind`
AuthSeen(rb, nb, kind) ==
    IF seen_exceeded(loc.seen[kind] + 1, SeenMax(kind))
    THEN /\ pc' = "done"
         /\ result' = Err(SeenMsg(kind))
         /\ loc' = [Sighted(loc, nb) EXCEPT !.rb = rb, !.seen[kind] = @ + 1]
    ELSE /\ pc' = "auth_write"
         /\ UNCHANGED result
         /\ loc' = [Sighted(loc, nb) EXCEPT !.rb = rb, !.seen[kind] = @ + 1,
                                            !.cred = kind]

\* one poll of read_until_any_prompt inside authenticate_telnet / _ssh and,
\* when it returns, the script's handling of what it returned
AuthWatch ==
    /\ op = "open"
    /\ pc = "auth_watch"
    /\ ChannelRead
    /\ LET r == read_and_check_for_any_prompt(loc.outer, AuthWatchList)
           rb == loc.rb \o r.rb
       IN IF r.err # "none"
          THEN /\ pc' = "done"
               /\ result' = Err(r.err)
               /\ UNCHANGED loc
          ELSE IF ~r.found
          THEN /\ loc' = [AuthRead(loc) EXCEPT !.outer = read_until_carry(loc.outer, r.rb)]
               /\ UNCHANGED <<pc, result>>
          ELSE IF IsMatch(args.prompt_pattern, rb)
          THEN /\ pc' = "open_requeue"
               /\ loc' = [Sighted(loc, r.rb) EXCEPT !.rb = rb]
               /\ UNCHANGED result
          ELSE IF IsMatch(AuthFirstPattern, rb)
          THEN AuthSeen(rb, r.rb, AuthFirstKind)
          ELSE IF IsMatch(AuthSecondPattern, rb)
          THEN AuthSeen(rb, r.rb, AuthSecondKind)
          ELSE /\ loc' = [Sighted(loc, r.rb) EXCEPT !.rb = rb]
               /\ UNCHANGED <<pc, result>>
    /\ UNCHANGED <<written, rlSide>>

\* write_and_return(credential): Channel::write
AuthWrite ==
    /\ op = "open"
    /\ pc = "auth_write"
    /\ written' = Append(written, Credential(loc.cred))
    /\ pc' = "auth_write_return"
    /\ UNCHANGED <<queue, depth, errq, delivered, result, loc, rlSide>>

\* write_and_return(credential): Channel::write_return; then rb = vec![]
AuthWriteReturn ==
    /\ op = "open"
    /\ pc = "auth_write_return"
    /\ written' = Append(written, args.return_char)
    /\ loc' = [loc EXCEPT !.rb = <<>>, !.consumed = <<>>]
    /\ pc' = "auth_watch"
    /\ UNCHANGED <<queue, depth, errq, delivered, result, rlSide>>

\* a Transport write fails: the `?` returns the error from the operation
WriteFails ==
    /\ pc \in {"auth_write", "auth_write_return"}
    /\ dev.errors
    /\ pc' = "done"
    /\ result' = Err("write_error")
    /\ UNCHANGED <<queue, depth, errq, written, delivered, loc, rlSide>>

\* Channel::open after a successful script: requeue what it read
OpenRequeue ==
    /\ op = "open"
    /\ pc = "open_requeue"
    /\ IF loc.rb = <<>>
       THEN UNCHANGED <<queue, depth>>
       ELSE /\ queue' = requeue(queue, loc.rb)
            /\ depth' = depth + 1
    /\ pc' = "done"
    /\ result' = Ok(<<>>)
    /\ UNCHANGED <<errq, written, delivered, loc, rlSide>>

AuthReads == 5
CustomReads == 8

AuthScenarios ==
    { [dev |-> Device({<<"U">>, <<"P">>, <<"r", "#">>, <<"!">>}, AuthReads, FALSE, FALSE),
       args |-> DefaultArgs],
      [dev |-> [Device({<<"P">>, <<"K">>, <<"r", ">">>}, AuthReads, TRUE, FALSE)
                  EXCEPT !.auth_type = "SSH"],
       args |-> DefaultArgs],
      [dev |-> Device({<<"V">>}, CustomReads, FALSE, FALSE),
       args |-> [DefaultArgs EXCEPT !.username_pattern = Literal("V")]],
      [dev |-> Device({<<"r", "#">>}, 1, FALSE, FALSE),
       args |-> [DefaultArgs EXCEPT !.auth_bypass = TRUE]] }

InitAuth ==
    /\ InitChannel
    /\ InitNoDriver
    /\ \E sc \in AuthScenarios : dev = sc.dev /\ args = sc.args
    /\ opt = DefaultOptions
    /\ op = "open"
    /\ pc = "open"
    /\ loc = AuthLoc

NextAuth ==
    \/ ReadLoop
    \/ OpenStart
    \/ AuthWatch
    \/ AuthWrite
    \/ AuthWriteReturn
    \/ WriteFails
    \/ OpenRequeue

SpecAuth == InitAuth /\ [][NextAuth]_vars

AuthEnded == pc \in {"open_requeue", "done"}

\* C2: in-band authentication has ended, with success or with a failure,
\* once USER_SEEN_MAX + PASSWORD_SEEN_MAX + PASSPHRASE_SEEN_MAX + 1 prompt
\* sightings (returns of the watch on a match of the prompt, username,
\* password or passphrase pattern) have happened, whatever the device sends.
C2_AuthEndsWithinSightings ==
    op = "open" /\ loc.sightings >= USER_SEEN_MAX + PASSWORD_SEEN_MAX + PASSPHRASE_SEEN_MAX + 1
        => AuthEnded

CountWrites(kind) == Cardinality({i \in 1..Len(written) : written[i] = Credential(kind)})

\* C3: for each prompt kind a script watches, the credential and then the
\* return character are written on the first and on the second sighting of
\* that prompt, and the third sighting fails open with the "seen multiple
\* times" error without another write.
C3_CredentialOnFirstAndSecondSighting ==
    (op = "open" /\ pc \in {"auth_watch", "open_requeue", "done"}
                /\ ~args.auth_bypass /\ result.msg # "write_error")
        => \A kind \in {AuthFirstKind, AuthSecondKind} :
              /\ CountWrites(kind) =
                    IF loc.watched[kind] <= SeenMax(kind) THEN loc.watched[kind]
                    ELSE SeenMax(kind)
              /\ loc.watched[kind] > SeenMax(kind)
                    => pc = "done" /\ result = Err(SeenMsg(kind))
              /\ \A i \in 1..Len(written) :
                    IF i % 2 = 1 THEN written[i] # args.return_char
                    ELSE written[i] = args.return_char

(***************************************************************************)
(* get_prompt: write_return, read_until_prompt, prompt_pattern.find.       *)
(***************************************************************************)
MaxOf(S) == CHOOSE x \in S : \A y \in S : x >= y

PromptEndAt(b, j, k) ==
    /\ \A m \in (j + 1)..k : b[m] \in WhiteClass
    /\ (k = Len(b) \/ b[k + 1] = NEW_LINE_BYTE)

\* Regex::find with the default prompt pattern: the leftmost match, its
\* trailing \s* taken greedily
PromptSpan(b) ==
    LET starts == {i \in 1..Len(b) : \E j \in i..Len(b) : PromptMatchAt(b, i, j)}
        i0 == MinOf(starts)
        j0 == CHOOSE j \in i0..Len(b) : PromptMatchAt(b, i0, j)
        k0 == MaxOf({k \in j0..Len(b) : PromptEndAt(b, j0, k)})
    IN [from |-> i0, to |-> k0]

PromptFind(b) == SubSeq(b, PromptSpan(b).from, PromptSpan(b).to)

PromptLoc == [outer |-> <<>>, acc |-> <<>>, started |-> 0]

\* get_prompt: self.write_return()
GetPromptWriteReturn ==
    /\ op = "get_prompt"
    /\ pc = "gp_write_return"
    /\ \/ /\ written' = Append(written, args.return_char)
          /\ pc' = "rup_poll"
          /\ UNCHANGED result
       \/ /\ dev.errors
          /\ pc' = "done"
          /\ result' = Err("write_error")
          /\ UNCHANGED written
    /\ UNCHANGED <<queue, depth, errq, delivered, loc, rlSide>>

\* one iteration of read_until_prompt's loop (it checks no deadline), and
\* get_prompt's find on what it returns
ReadUntilPromptPoll ==
    /\ op = "get_prompt"
    /\ pc = "rup_poll"
    /\ ChannelRead
    /\ LET r == read_and_check_for_prompt(loc.outer)
       IN IF r.err # "none"
          THEN /\ pc' = "done"
               /\ result' = Err(r.err)
               /\ UNCHANGED loc
          ELSE IF r.found
          THEN /\ pc' = "done"
               /\ result' = Ok(PromptFind(r.rb))
               /\ loc' = [loc EXCEPT !.acc = @ \o process_read_buf(ReadNb)]
          ELSE /\ loc' = [loc EXCEPT !.outer = read_until_carry(loc.outer, r.rb),
                                     !.acc = @ \o process_read_buf(ReadNb)]
               /\ UNCHANGED <<pc, result>>
    /\ UNCHANGED <<written, rlSide>>

PromptReads == 3

PromptChunks ==
    {<<"r">>, <<"#">>, <<"\r", "\n", "r", "#">>, <<"!", "!", "\n", "r", ">">>, <<"!">>}

InitPrompt ==
    /\ InitChannel
    /\ InitNoDriver
    /\ dev = Device(PromptChunks, PromptReads, TRUE, FALSE)
    /\ args = DefaultArgs
    /\ opt = DefaultOptions
    /\ op = "get_prompt"
    /\ pc = "gp_write_return"
    /\ loc = PromptLoc

NextPrompt ==
    \/ ReadLoop
    \/ Tick
    \/ GetPromptWriteReturn
    \/ ReadUntilPromptPoll

SpecPrompt == InitPrompt /\ [][NextPrompt]_vars

\* C4: get_prompt (through read_until_prompt) checks a wall-clock deadline,
\* start + timeout_ops, on each poll iteration: an iteration run once the
\* deadline has passed ends the operation instead of polling on.
C4_PollAfterDeadlineEnds ==
    [][(ReadUntilPromptPoll /\ now >= loc.started + args.timeout_ops)
          => pc' = "done"]_vars

\* C6: read_until_prompt tests the prompt on everything read during the
\* call, so it is no longer polling once the accumulated chunks match the
\* prompt, also when the prompt came split over two chunks.
C6_ReturnsWhenAccumulationMatches ==
    (op = "get_prompt" /\ pc = "rup_poll") => ~IsMatch(args.prompt_pattern, loc.acc)

(***************************************************************************)
(* util::bytes.                                                            *)
(***************************************************************************)
\* is_sub(haystack, needle): needle occurs contiguously in haystack
is_sub(haystack, needle) ==
    \/ needle = <<>>
    \/ \E i \in 1..Len(haystack) :
          /\ i + Len(needle) - 1 <= Len(haystack)
          /\ SubSeq(haystack, i, i + Len(needle) - 1) = needle

\* roughly_contains_iter_output_for_input_char: (found, rest of output)
roughly_contains_iter_output_for_input_char(input_char, output) ==
    LET hits == {i \in 1..Len(output) : output[i] = input_char}
    IN IF hits = {} THEN [found |-> FALSE, rest |-> output]
       ELSE [found |-> TRUE, rest |-> SubSeq(output, MinOf(hits) + 1, Len(output))]

RECURSIVE roughly_contains_loop(_, _, _)
\* the for loop of roughly_contains over input[i..]: on a hit it continues
\* without assigning new_output to iter_output
roughly_contains_loop(input, i, iter_output) ==
    IF i > Len(input) THEN TRUE
    ELSE LET step == roughly_contains_iter_output_for_input_char(input[i], iter_output)
         IN IF step.found THEN roughly_contains_loop(input, i + 1, iter_output)
            ELSE FALSE

roughly_contains(input, output) ==
    IF is_sub(input, output) THEN TRUE
    ELSE IF Len(output) < Len(input) THEN FALSE
    ELSE roughly_contains_loop(input, 1, output)

char_in_cutset(b, cutset) == b \in Range(cutset)

NotInCutset(b, cutset) == {i \in 1..Len(b) : ~char_in_cutset(b[i], cutset)}

trim_cutset_left(b, cutset) ==
    IF NotInCutset(b, cutset) = {} THEN <<>>
    ELSE SubSeq(b, MinOf(NotInCutset(b, cutset)), Len(b))

\* rposition(..).expect(..) panics when no byte is outside the cutset
trim_cutset_right_panics(b, cutset) == NotInCutset(b, cutset) = {}

trim_cutset_right(b, cutset) == SubSeq(b, 1, MaxOf(NotInCutset(b, cutset)))

trim_cutset(b, cutset) ==
    IF NotInCutset(b, cutset) = {} THEN <<>>
    ELSE SubSeq(b, MinOf(NotInCutset(b, cutset)), MaxOf(NotInCutset(b, cutset)))

(***************************************************************************)
(* send_input: process_output.                                             *)
(***************************************************************************)
RECURSIVE SplitFrom(_, _, _)
\* b.split(|b| b == NEW_LINE_BYTE): the lines, the last one possibly empty
SplitFrom(b, i, line) ==
    IF i > Len(b) THEN <<line>>
    ELSE IF b[i] = NEW_LINE_BYTE THEN <<line>> \o SplitFrom(b, i + 1, <<>>)
    ELSE SplitFrom(b, i + 1, Append(line, b[i]))

SplitLines(b) == SplitFrom(b, 1, <<>>)

RECURSIVE clean_lines(_)
\* the loop over the lines, and clean_lines.concat()
clean_lines(lines) ==
    IF lines = <<>> THEN <<>>
    ELSE trim_cutset_right(Head(lines), <<NEW_LINE_BYTE>>) \o <<NEW_LINE_BYTE>>
         \o clean_lines(Tail(lines))

\* Regex::replace(b, vec![]): the leftmost match removed, the rest kept
RegexReplace(p, b) ==
    IF ~IsMatch(p, b) THEN b
    ELSE IF p.kind = "prompt"
    THEN SubSeq(b, 1, PromptSpan(b).from - 1) \o SubSeq(b, PromptSpan(b).to + 1, Len(b))
    ELSE LET at == MinOf({i \in 1..Len(b) : b[i] = p.tok})
         IN SubSeq(b, 1, at - 1) \o SubSeq(b, at + 1, Len(b))

process_output_panics(b) ==
    \E i \in 1..Len(SplitLines(b)) :
       trim_cutset_right_panics(SplitLines(b)[i], <<NEW_LINE_BYTE>>)

\* joined_lines is bound once, as the code's local variable is
process_output(b, strip_prompt) ==
    LET cutset == <<NEW_LINE_BYTE>> \o args.return_char
        outs == {trim_cutset(IF strip_prompt
                             THEN RegexReplace(args.prompt_pattern, joined_lines)
                             ELSE joined_lines, cutset) :
                    joined_lines \in {clean_lines(SplitLines(b))}}
    IN CHOOSE joined_cleaned_lines \in outs : TRUE

(***************************************************************************)
(* The fuzzy and explicit read-and-check steps.                            *)
(***************************************************************************)
read_and_check_for_fuzzy(old_rb, explicit) ==
    IF ~ReadOk THEN Checked(FALSE, ReadErr, <<>>)
    ELSE IF ReadNb = <<>> THEN Checked(FALSE, "none", old_rb)
    ELSE LET rb == old_rb \o ReadNb
         IN Checked(roughly_contains(rb, explicit), "none", rb)

read_and_check_for_explicit(old_rb, explicit) ==
    IF ~ReadOk THEN Checked(FALSE, ReadErr, <<>>)
    ELSE IF ReadNb = <<>> THEN Checked(FALSE, "none", old_rb)
    ELSE LET rb == old_rb \o ReadNb
         IN Checked(is_sub(rb, explicit), "none", rb)

(***************************************************************************)
(* send_input_bytes.                                                       *)
(***************************************************************************)
TimedOut == "timed out sending input to device"

\* options.timeout.unwrap_or(self.args.timeout_ops); None is <<>>
OpTimeout == IF opt.timeout = <<>> THEN args.timeout_ops ELSE opt.timeout[1]

deadline_never(deadline, t) == FALSE
deadline_passed(deadline, t) == deadline <= t

echo_next_unchecked(found) == "si_return"
\* `if found { break; }` of the echo loop
echo_next(found) == IF found THEN "si_return" ELSE "si_echo"

SendLoc ==
    [input |-> <<>>, rb |-> <<>>, deadline |-> 0, started |-> 0, phase |-> "",
     echo |-> FALSE, events |-> <<>>, idx |-> 1, b |-> <<>>, prompts |-> <<>>,
     mark |-> 0]

\* let deadline = Utc::now() + timeout; self.write(b)
SendInputWrite ==
    /\ op = "send_input"
    /\ pc = "si_write"
    /\ \/ /\ written' = Append(written, loc.input)
          /\ pc' = "si_echo"
          /\ loc' = [loc EXCEPT !.deadline = now + OpTimeout, !.started = now,
                                !.phase = "echo"]
          /\ UNCHANGED result
       \/ /\ dev.errors
          /\ pc' = "done"
          /\ result' = Err("write_error")
          /\ loc' = [loc EXCEPT !.deadline = now + OpTimeout, !.started = now]
          /\ UNCHANGED written
    /\ UNCHANGED <<queue, depth, errq, delivered, rlSide>>

\* one iteration of the echo loop
SendInputEcho ==
    /\ op = "send_input"
    /\ pc = "si_echo"
    /\ IF deadline_passed(loc.deadline, now)
       THEN /\ pc' = "done"
            /\ result' = Err(TimedOut)
            /\ UNCHANGED <<queue, depth, errq, delivered, loc>>
       ELSE /\ ChannelRead
            /\ LET r == read_and_check_for_fuzzy(loc.rb, loc.input)
               IN IF r.err # "none"
                  THEN /\ pc' = "done"
                       /\ result' = Err(r.err)
                       /\ UNCHANGED loc
                  ELSE /\ loc' = [loc EXCEPT !.rb = r.rb, !.echo = r.found]
                       /\ pc' = echo_next(r.found)
                       /\ UNCHANGED result
    /\ UNCHANGED <<written, rlSide>>

\* self.write_return(); the eager return; let mut rb = vec![]
SendInputWriteReturn ==
    /\ op = "send_input"
    /\ pc = "si_return"
    /\ \/ /\ written' = Append(written, args.return_char)
          /\ IF opt.eager
             THEN /\ pc' = "done"
                  /\ result' = Ok(loc.input)
                  /\ loc' = [loc EXCEPT !.phase = "eager"]
             ELSE /\ pc' = "si_prompt"
                  /\ loc' = [loc EXCEPT !.rb = <<>>, !.phase = "prompt",
                                        !.mark = Len(delivered)]
                  /\ UNCHANGED result
       \/ /\ dev.errors
          /\ pc' = "done"
          /\ result' = Err("write_error")
          /\ UNCHANGED <<written, loc>>
    /\ UNCHANGED <<queue, depth, errq, delivered, rlSide>>

\* one iteration of the prompt loop, and process_output when it is found
SendInputPrompt ==
    /\ op = "send_input"
    /\ pc = "si_prompt"
    /\ IF deadline_passed(loc.deadline, now)
       THEN /\ pc' = "done"
            /\ result' = Err(TimedOut)
            /\ UNCHANGED <<queue, depth, errq, delivered, loc>>
       ELSE /\ ChannelRead
            /\ LET r == IF opt.interim_prompt_patterns = <<>>
                        THEN read_and_check_for_prompt(loc.rb)
                        ELSE read_and_check_for_any_prompt(loc.rb, opt.interim_prompt_patterns)
               IN IF r.err # "none"
                  THEN /\ pc' = "done"
                       /\ result' = Err(r.err)
                       /\ UNCHANGED loc
                  ELSE IF r.found
                  THEN /\ pc' = "done"
                       /\ loc' = [loc EXCEPT !.rb = r.rb]
                       /\ result' = IF process_output_panics(r.rb)
                                    THEN [kind |-> "panic", val |-> <<>>,
                                          msg |-> "no char in rposition"]
                                    ELSE Ok(process_output(r.rb, opt.strip_prompt))
                  ELSE /\ loc' = [loc EXCEPT !.rb = r.rb]
                       /\ UNCHANGED <<pc, result>>
    /\ UNCHANGED <<written, rlSide>>

SendInput == SendInputWrite \/ SendInputEcho \/ SendInputWriteReturn \/ SendInputPrompt

(***************************************************************************)
(* send_interactive.                                                       *)
(***************************************************************************)
MaxBuf == 6

\* Event: response is a pattern, Pat("empty", "") for the empty string and
\* Pat("invalid", "") for a string Regex::from_str rejects
Event(input, response, hidden) ==
    [input |-> input, response |-> response, hidden |-> hidden]

\* let deadline = Utc::now() + timeout; let mut b = vec![]; the loop over no
\* events falls through to Ok(b)
SendInteractiveStart ==
    /\ op = "send_interactive"
    /\ pc = "sx_start"
    /\ loc' = [loc EXCEPT !.deadline = now + OpTimeout, !.started = now, !.b = <<>>,
                          !.idx = 1]
    /\ IF loc.events = <<>>
       THEN pc' = "done" /\ result' = Ok(<<>>)
       ELSE pc' = "sx_write" /\ UNCHANGED result
    /\ UNCHANGED <<written, queue, depth, errq, delivered, rlSide>>

\* the prompts of the event, then self.write(event.input)
SendInteractiveWrite ==
    /\ op = "send_interactive"
    /\ pc = "sx_write"
    /\ LET event == loc.events[loc.idx]
       IN IF event.response.kind = "invalid"
          THEN /\ pc' = "done"
               /\ result' = Err("could not be compiled")
               /\ UNCHANGED <<written, loc>>
          ELSE \/ /\ written' = Append(written, event.input)
                  /\ loc' = [loc EXCEPT
                               !.prompts = opt.complete_patterns \o
                                   <<IF event.response.kind = "empty"
                                     THEN args.prompt_pattern ELSE event.response>>,
                               !.rb = <<>>,
                               !.phase = "echo"]
                  /\ pc' = IF event.input # <<>> /\ ~event.hidden
                           THEN "sx_echo" ELSE "sx_return"
                  /\ UNCHANGED result
               \/ /\ dev.errors
                  /\ pc' = "done"
                  /\ result' = Err("write_error")
                  /\ UNCHANGED <<written, loc>>
    /\ UNCHANGED <<queue, depth, errq, delivered, rlSide>>

\* one iteration of the loop that reads until the input is seen
SendInteractiveEcho ==
    /\ op = "send_interactive"
    /\ pc = "sx_echo"
    /\ deadline_passed(loc.deadline, now) \/ Len(loc.b) <= MaxBuf
    /\ IF deadline_passed(loc.deadline, now)
       THEN /\ pc' = "done"
            /\ result' = Err(TimedOut)
            /\ UNCHANGED <<queue, depth, errq, delivered, loc>>
       ELSE /\ ChannelRead
            /\ LET r == read_and_check_for_explicit(loc.rb, loc.events[loc.idx].input)
               IN IF r.err # "none"
                  THEN /\ pc' = "done"
                       /\ result' = Err(r.err)
                       /\ UNCHANGED loc
                  ELSE IF r.rb = <<>>
                  THEN /\ loc' = [loc EXCEPT !.rb = r.rb]
                       /\ UNCHANGED <<pc, result>>
                  ELSE /\ loc' = [loc EXCEPT !.rb = r.rb, !.b = loc.b \o r.rb]
                       /\ pc' = IF r.found THEN "sx_return" ELSE "sx_echo"
                       /\ UNCHANGED result
    /\ UNCHANGED <<written, rlSide>>

\* self.write_return(); let mut rb = vec![]
SendInteractiveWriteReturn ==
    /\ op = "send_interactive"
    /\ pc = "sx_return"
    /\ \/ /\ written' = Append(written, args.return_char)
          /\ pc' = "sx_prompt"
          /\ loc' = [loc EXCEPT !.rb = <<>>, !.phase = "prompt"]
          /\ UNCHANGED result
       \/ /\ dev.errors
          /\ pc' = "done"
          /\ result' = Err("write_error")
          /\ UNCHANGED <<written, loc>>
    /\ UNCHANGED <<queue, depth, errq, delivered, rlSide>>

\* the check after an event: idx < events.len() holds for every index of the
\* enumeration, and the loop runs over prompts, not complete_patterns
done_early(idx, events, prompts, b) ==
    /\ idx - 1 < Len(events)
    /\ opt.complete_patterns # <<>>
    /\ AnyMatch(prompts, b)

\* one iteration of the loop that reads until any prompt of the event, then
\* the early return, the next event or the final Ok(b)
SendInteractivePrompt ==
    /\ op = "send_interactive"
    /\ pc = "sx_prompt"
    /\ deadline_passed(loc.deadline, now) \/ Len(loc.b) <= MaxBuf
    /\ IF deadline_passed(loc.deadline, now)
       THEN /\ pc' = "done"
            /\ result' = Err(TimedOut)
            /\ UNCHANGED <<queue, depth, errq, delivered, loc>>
       ELSE /\ ChannelRead
            /\ LET r == read_and_check_for_any_prompt(loc.rb, loc.prompts)
                   b == loc.b \o r.rb
               IN IF r.err # "none"
                  THEN /\ pc' = "done"
                       /\ result' = Err(r.err)
                       /\ UNCHANGED loc
                  ELSE IF ~r.found
                  THEN /\ loc' = [loc EXCEPT !.rb = r.rb, !.b = b]
                       /\ UNCHANGED <<pc, result>>
                  ELSE IF done_early(loc.idx, loc.events, loc.prompts, b)
                  THEN /\ loc' = [loc EXCEPT !.rb = r.rb, !.b = b, !.phase = "early"]
                       /\ pc' = "done"
                       /\ result' = Ok(b)
                  ELSE IF loc.idx = Len(loc.events)
                  THEN /\ loc' = [loc EXCEPT !.rb = r.rb, !.b = b, !.phase = "end"]
                       /\ pc' = "done"
                       /\ result' = Ok(b)
                  ELSE /\ loc' = [loc EXCEPT !.rb = r.rb, !.b = b, !.idx = loc.idx + 1]
                       /\ pc' = "sx_write"
                       /\ UNCHANGED result
    /\ UNCHANGED <<written, rlSide>>

SendInteractive ==
    \/ SendInteractiveStart
    \/ SendInteractiveWrite
    \/ SendInteractiveEcho
    \/ SendInteractiveWriteReturn
    \/ SendInteractivePrompt

(***************************************************************************)
(* The send specification: one send_input or send_interactive call against *)
(* a device that echoes, answers and prompts in every order.               *)
(***************************************************************************)
SendReads == 3

InteractiveReads == 3

FewReads == 2

InputChunks == {<<"r", "m">>, <<"r">>, <<"r", "!", "m">>, <<"!", "\n", "r", "#">>, <<"Q">>}

InteractiveChunks == {<<"r">>, <<"V">>, <<"!", "\n", "r", "#">>, <<"Q">>}

TheInput == <<"r", "m">>

TheEvents == <<Event(<<"r">>, Literal("V"), FALSE), Event(<<"pwd">>, Pat("empty", ""), TRUE)>>

Scenario(o, options, input, events, d) ==
    [op |-> o, opt |-> options, input |-> input, events |-> events, dev |-> d]

SendScenarios ==
    { Scenario("send_input", DefaultOptions, TheInput, <<>>,
               Device(InputChunks, SendReads, TRUE, FALSE)),
      Scenario("send_input", [DefaultOptions EXCEPT !.eager = TRUE], TheInput, <<>>,
               Device({<<"r", "m">>, <<"r">>}, FewReads, FALSE, FALSE)),
      Scenario("send_input", [DefaultOptions EXCEPT !.timeout = <<1>>], TheInput, <<>>,
               Device({<<"r", "m">>, <<"!", "\n", "r", "#">>}, FewReads, FALSE, FALSE)),
      Scenario("send_input",
               [DefaultOptions EXCEPT !.interim_prompt_patterns = <<Literal("Q")>>],
               TheInput, <<>>,
               Device({<<"r", "m">>, <<"!", "\n", "r", "#">>, <<"Q">>}, FewReads,
                      FALSE, FALSE)),
      Scenario("send_interactive", DefaultOptions, <<>>, TheEvents,
               Device(InteractiveChunks, InteractiveReads, TRUE, FALSE)),
      Scenario("send_interactive",
               [DefaultOptions EXCEPT !.complete_patterns = <<Literal("Q")>>],
               <<>>, TheEvents, Device({<<"r">>, <<"V">>, <<"Q">>}, FewReads, FALSE, FALSE)),
      Scenario("send_interactive", DefaultOptions, <<>>, <<>>,
               Device({<<"r">>}, FewReads, FALSE, FALSE)),
      Scenario("send_interactive", DefaultOptions, <<>>,
               <<Event(<<"r">>, Pat("invalid", ""), FALSE)>>,
               Device({<<"r">>}, FewReads, FALSE, FALSE)) }

InitSend ==
    /\ InitChannel
    /\ InitNoDriver
    /\ args = DefaultArgs
    /\ \E s \in SendScenarios :
          /\ dev = s.dev
          /\ opt = s.opt
          /\ op = s.op
          /\ pc = IF s.op = "send_input" THEN "si_write" ELSE "sx_start"
          /\ loc = [SendLoc EXCEPT !.input = s.input, !.events = s.events]

NextSend ==
    \/ ReadLoop
    \/ Tick
    \/ SendInput
    \/ SendInteractive

SpecSend == InitSend /\ [][NextSend]_vars

LiveReads == 2

LiveScenarios ==
    { Scenario("send_input", DefaultOptions, TheInput, <<>>,
               Device({<<"r", "m">>, <<"!", "\n", "r", "#">>}, LiveReads, TRUE, FALSE)),
      Scenario("send_interactive", [DefaultOptions EXCEPT !.timeout = <<1>>], <<>>,
               TheEvents,
               Device({<<"r">>, <<"V">>, <<"!", "\n", "r", "#">>}, LiveReads, FALSE, FALSE)) }

InitSendFair ==
    /\ InitChannel
    /\ InitNoDriver
    /\ args = DefaultArgs
    /\ \E s \in LiveScenarios :
          /\ dev = s.dev
          /\ opt = s.opt
          /\ op = s.op
          /\ pc = IF s.op = "send_input" THEN "si_write" ELSE "sx_start"
          /\ loc = [SendLoc EXCEPT !.input = s.input, !.events = s.events]

\* the calling thread keeps running and the wall clock keeps advancing
SpecSendFair ==
    /\ InitSendFair
    /\ [][NextSend]_vars
    /\ WF_vars(Tick)
    /\ WF_vars(SendInput \/ SendInteractive)

SendPoll == SendInputEcho \/ SendInputPrompt \/ SendInteractiveEcho \/ SendInteractivePrompt

SendUnderWay ==
    /\ op \in {"send_input", "send_interactive"}
    /\ pc \notin {"si_write", "sx_start"}

\* C5: send_input and send_interactive compute one deadline per call, the
\* start time plus opt.timeout if set and timeout_ops otherwise, and never
\* change it; every poll made once the deadline has passed ends the call
\* with the error "timed out sending input to device"; and every call ends.
C5_DeadlineEndsTheCall ==
    /\ [][/\ SendUnderWay =>
               /\ loc.deadline = loc.started + OpTimeout
               /\ loc'.deadline = loc.deadline
          /\ (SendPoll /\ loc.deadline <= now) =>
               (pc' = "done" /\ result' = Err(TimedOut))]_vars
    /\ <>(pc = "done")

C5_Witness ==
    /\ op = "send_interactive"
    /\ pc = "done"
    /\ result = Err(TimedOut)
    /\ loc.idx = 2
    /\ loc.phase = "prompt"
    /\ opt.timeout # <<>>
    /\ loc.deadline = loc.started + opt.timeout[1]

RECURSIVE IsSubsequence(_, _)
\* every byte of needle appears in b in order, not necessarily contiguously
IsSubsequence(needle, b) ==
    IF needle = <<>> THEN TRUE
    ELSE IF b = <<>> THEN FALSE
    ELSE IF Head(needle) = Head(b) THEN IsSubsequence(Tail(needle), Tail(b))
    ELSE IsSubsequence(needle, Tail(b))

\* C7: in send_input the echo is confirmed exactly when the input is a
\* subsequence of the bytes accumulated since it was written: the call is
\* still in the echo loop only while it is not, and it leaves the loop for
\* the return character only when it is.
C7_EchoConfirmedIffSubsequence ==
    op = "send_input" =>
        /\ pc = "si_echo" => ~IsSubsequence(loc.input, loc.rb)
        /\ pc = "si_return" => IsSubsequence(loc.input, loc.rb)

\* C8: in a non-eager send_input the wait after the return character is
\* over as soon as the prompt pattern or one of the interim prompt patterns
\* matches the accumulated buffer: the call is never still waiting on a
\* buffer that one of them matches.
C8_PromptOrInterimEndsTheWait ==
    (op = "send_input" /\ pc = "si_prompt") =>
        ~(IsMatch(args.prompt_pattern, loc.rb)
          \/ AnyMatch(opt.interim_prompt_patterns, loc.rb))

\* C9: send_input writes the input alone, then the return character once
\* and only after the echo was confirmed; a call that failed during echo
\* confirmation has written the input and nothing else.
C9_ReturnOnceAfterEcho ==
    op = "send_input" =>
        /\ written \in {<<>>, <<loc.input>>, <<loc.input, args.return_char>>}
        /\ Len(written) = 2 => loc.echo
        /\ (pc = "si_prompt" \/ result.kind \in {"ok", "panic"}) =>
               written = <<loc.input, args.return_char>>
        /\ (result.kind = "err" /\ loc.phase = "echo") => written = <<loc.input>>

C9_Witness ==
    /\ op = "send_input"
    /\ ~opt.eager
    /\ pc = "done"
    /\ result.kind = "ok"
    /\ written = <<loc.input, args.return_char>>

\* C10: send_interactive returns successfully with events still left only
\* when complete_patterns is non-empty and one of the complete_patterns
\* matches the cumulative buffer it returns.
C10_EarlyReturnOnlyOnCompletePattern ==
    (op = "send_interactive" /\ pc = "done" /\ result.kind = "ok"
       /\ loc.idx < Len(loc.events)) =>
        /\ opt.complete_patterns # <<>>
        /\ AnyMatch(opt.complete_patterns, result.val)

(***************************************************************************)
(* The network Driver: privilege levels and the privilege level graph.     *)
(* Level names are strings, "" the empty String; prompts, commands and     *)
(* passwords are byte sequences as above, a command being one word symbol. *)
(***************************************************************************)
PrivilegeLevel(name, pattern, not_contains, previous, de_escalate, escalate, auth, prompt) ==
    [name |-> name, pattern |-> pattern, not_contains |-> not_contains,
     previous_privilege_level |-> previous, de_escalate |-> de_escalate,
     escalate |-> escalate, escalate_auth |-> auth, escalate_prompt |-> prompt]

DEFAULT_CONFIGURATION_PRIVILEGE_LEVEL == "configuration"

LevelNames(levels) == {levels[i].name : i \in 1..Len(levels)}

\* find(|privilege_level| privilege_level.name == name): the first of them
FindLevel(levels, name) ==
    levels[MinOf({i \in 1..Len(levels) : levels[i].name = name})]

RECURSIVE InsertLevels(_, _, _)
\* the first loop of build_privilege_level_graph: insert(name, HashMap::new())
\* replaces the entry, then the previous level is inserted into it
InsertLevels(levels, i, graph) ==
    IF i > Len(levels) THEN graph
    ELSE LET l == levels[i]
             entry == IF l.previous_privilege_level = "" THEN {}
                      ELSE {l.previous_privilege_level}
         IN InsertLevels(levels, i + 1, (l.name :> entry) @@ graph)

\* mutant of build_privilege_level_graph: the first loop only
build_privilege_level_graph_unmirrored(levels, old) == InsertLevels(levels, 1, old)

\* the second loop mirrors every edge of a clone of the graph; or_default
\* creates the entry of a previous level that is not configured
build_privilege_level_graph(levels, old) ==
    LET g == InsertLevels(levels, 1, old)
        keys == DOMAIN g \cup UNION {g[h] : h \in DOMAIN g}
    IN [k \in keys |->
           (IF k \in DOMAIN g THEN g[k] ELSE {}) \cup {h \in DOMAIN g : k \in g[h]}]

EmptyGraph == [k \in {} |-> {}]

never_contains(s, sv) == FALSE
string_contains_any_substring(s, sv) ==
    \E i \in 1..Len(sv) : is_sub(s, sv[i])

string_vec_contains_substring(sv, s) ==
    \E i \in 1..Len(sv) : sv[i] = s

\* determine_current_privilege_level: the names of the possible levels, in
\* the order of args.privilege_levels
possible_current_privilege_levels(levels, current_prompt) ==
    LET qualifies(l) ==
            /\ ~string_contains_any_substring(current_prompt, l.not_contains)
            /\ IsMatch(l.pattern, current_prompt)
        RECURSIVE Collect(_)
        Collect(i) ==
            IF i > Len(levels) THEN <<>>
            ELSE (IF qualifies(levels[i]) THEN <<levels[i].name>> ELSE <<>>)
                 \o Collect(i + 1)
    IN Collect(1)

determine_current_privilege_level(levels, current_prompt) ==
    LET possible == possible_current_privilege_levels(levels, current_prompt)
    IN IF Len(possible) = 1 THEN [ok |-> TRUE, name |-> possible[1], msg |-> ""]
       ELSE IF Len(possible) = 0
       THEN [ok |-> FALSE, name |-> "", msg |-> "found *no matching privilege levels*"]
       ELSE [ok |-> FALSE, name |-> "",
             msg |-> "found *more than one matching privilege level*"]

keep_all(results) == results
\* `if !new_working_steps.is_empty() { return new_working_steps; }`
keep_found(results) == results \ {<<>>}

RECURSIVE build_privilege_change_map(_, _, _, _)
\* every sequence the recursion can return: the keys of a HashMap come in an
\* order the program does not fix, so the neighbour tried first is any of
\* them; a neighbour whose search comes back empty is passed over
build_privilege_change_map(graph, current_privilege_level, target_privilege_level,
                           privilege_level_steps) ==
    LET working_steps == Append(privilege_level_steps, current_privilege_level)
    IN IF current_privilege_level = target_privilege_level THEN {working_steps}
       ELSE LET next == {p \in graph[current_privilege_level] :
                            ~string_vec_contains_substring(working_steps, p)}
                found == UNION {keep_found(build_privilege_change_map(
                                    graph, p, target_privilege_level, working_steps)) :
                                  p \in next}
            IN IF found = {} THEN {<<>>} ELSE found

(***************************************************************************)
(* The path planning specification: build_privilege_change_map applied to  *)
(* every graph that build_privilege_level_graph makes of up to MaxLevels   *)
(* levels, and every pair of its levels.                                   *)
(***************************************************************************)
MaxLevels == 4

AllNames == <<"exec", "privilege_exec", "configuration", "tclsh", "shell", "root">>

GraphNames == {AllNames[i] : i \in 1..MaxLevels}

\* a level of which only the name and the previous level matter here
BareLevel(name, previous) ==
    PrivilegeLevel(name, Literal(name), <<>>, previous, <<>>, <<>>, FALSE, Literal(""))

InitGraph ==
    /\ InitChannel
    /\ dev = Device({}, 0, FALSE, FALSE)
    /\ args = DefaultArgs
    /\ opt = DefaultOptions
    /\ net = NoNet
    /\ op = "build_privilege_change_map"
    /\ pc = "gr_start"
    /\ \E previous \in [GraphNames -> GraphNames \cup {""}] :
          drv = [current_privilege_level |-> "",
                 privilege_level_graph |->
                     build_privilege_level_graph(
                         [i \in 1..MaxLevels |-> BareLevel(AllNames[i], previous[AllNames[i]])],
                         EmptyGraph)]
    /\ \E c \in GraphNames, t \in GraphNames :
          loc = [current |-> c, target |-> t]

PlanPath ==
    /\ op = "build_privilege_change_map"
    /\ pc = "gr_start"
    /\ \E path \in build_privilege_change_map(drv.privilege_level_graph,
                                              loc.current, loc.target, <<>>) :
          result' = Ok(path)
    /\ pc' = "done"
    /\ UNCHANGED <<chanVars, written, delivered, now, cfgVars, op, loc>>

NextGraph == PlanPath

SpecGraph == InitGraph /\ [][NextGraph]_vars

RECURSIVE ReachableSet(_, _)
\* the levels joined to the levels of S by edges of the graph
ReachableSet(graph, S) ==
    LET T == S \cup UNION {graph[k] : k \in S \cap DOMAIN graph}
    IN IF T = S THEN S ELSE ReachableSet(graph, T)

IsSimplePath(graph, path, current, target) ==
    /\ path # <<>>
    /\ path[1] = current
    /\ path[Len(path)] = target
    /\ \A i \in 1..(Len(path) - 1) : path[i + 1] \in graph[path[i]]
    /\ \A i \in 1..Len(path) : \A j \in 1..Len(path) : path[i] = path[j] => i = j

\* C17: build_privilege_change_map returns the empty sequence exactly when
\* the target cannot be reached from the current level; otherwise what it
\* returns starts with the current level, ends with the target, steps only
\* along edges of the graph and repeats no level.
C17_PathIsSimpleOrUnreachable ==
    (op = "build_privilege_change_map" /\ pc = "done") =>
        LET reachable == loc.target \in ReachableSet(drv.privilege_level_graph, {loc.current})
        IN /\ (result.val = <<>>) <=> ~reachable
           /\ result.val # <<>> =>
                 IsSimplePath(drv.privilege_level_graph, result.val, loc.current, loc.target)

C17_Witness ==
    /\ op = "build_privilege_change_map"
    /\ pc = "done"
    /\ Len(result.val) = 4
    /\ Cardinality(drv.privilege_level_graph[result.val[2]]) = 3

(***************************************************************************)
(* The network Driver's operations: open, acquire_privilege_level,         *)
(* send_command, send_configs and close, and the generic Driver's open     *)
(* and close beneath them.  A Channel call (open, get_prompt, send_input,  *)
(* send_interactive, close) is one step here: it writes what the Channel   *)
(* writes and returns Ok, or Err when the connection can fail.             *)
(*                                                                         *)
(* drv holds the two Drivers' args and the network Driver's fields; a      *)
(* callable is "none" (None), "ok" (returns Ok) or "err" (returns Err).    *)
(* net is the device: the level it is at, whether the connection is up,    *)
(* and the history of the current call (callables run, Channel calls).     *)
(***************************************************************************)
build_joined_prompt_pattern(levels) ==
    Pat("joined", [i \in 1..Len(levels) |-> levels[i].pattern])

NetworkDriver(levels, default, secondary_password, on_open, on_close,
              generic_on_open, generic_on_close) ==
    [privilege_levels |-> levels,
     default_desired_privilege_level |-> default,
     secondary_password |-> secondary_password,
     on_open |-> on_open, on_close |-> on_close,
     generic_on_open |-> generic_on_open, generic_on_close |-> generic_on_close,
     failed_when_contains |-> <<>>,
     current_privilege_level |-> "",
     privilege_level_graph |-> EmptyGraph]

\* the generic OperationOptions: failed_when_contains, stop_on_failed and the
\* Channel's options
GenericOptions(failed_when_contains, stop_on_failed) ==
    [failed_when_contains |-> failed_when_contains,
     stop_on_failed |-> stop_on_failed] @@ DefaultOptions

\* the network OperationOptions: privilege_level and the generic options
NetOptions(privilege_level) ==
    [privilege_level |-> privilege_level] @@ GenericOptions(<<>>, FALSE)

Ev(e, a) == [ev |-> e, arg |-> a]

\* the prompt the device shows at a level
PromptOf(name) ==
    CASE name = "exec" -> <<"r", ">">>
      [] name = "privilege_exec" -> <<"r", "#">>
      [] name = "configuration" -> <<"r", "c", "#">>
      [] name = "tclsh" -> <<"r", "t", "#">>
      [] OTHER -> <<"r", "!">>

\* mode "obedient": the device changes level as the levels' escalate and
\* de_escalate commands say; mode "arbitrary": it answers get_prompt with
\* any of prompts
\* examined is history: the level the last prompt that
\* acquire_privilege_level classified was classified as, "" once an escalate
\* or de-escalate command has been written after it
NetDevice(mode, level, prompts) ==
    [mode |-> mode, level |-> level, prompts |-> prompts,
     outputs |-> {<<>>}, opened |-> FALSE, log |-> <<>>, examined |-> ""]

\* the level an obedient device is at after a command
DeviceAfter(levels, level, cmd) ==
    LET up == {i \in 1..Len(levels) :
                  /\ levels[i].previous_privilege_level = level
                  /\ levels[i].escalate = cmd}
    IN IF up # {} THEN levels[MinOf(up)].name
       ELSE IF level \notin LevelNames(levels) THEN level
       ELSE IF /\ FindLevel(levels, level).de_escalate = cmd
               /\ FindLevel(levels, level).previous_privilege_level # ""
       THEN FindLevel(levels, level).previous_privilege_level
       ELSE level

\* the prompts get_prompt can return: what prompt_pattern finds, so one
\* that the joined pattern matches
DevicePrompts ==
    {p \in (IF net.mode = "obedient" THEN {PromptOf(net.level)} ELSE net.prompts) :
        IsMatch(args.prompt_pattern, p)}

ChannelErr == Err("channel error")

\* what a Channel call returns: ok, or an error when the connection can fail
ChannelOutcomes(ok) == {ok} \cup (IF dev.errors THEN {ChannelErr} ELSE {})

DrvLoc(n) ==
    [calls |-> n, target |-> "", action_count |-> 0, current_prompt |-> <<>>,
     action |-> "NoOp", next_privilege_level |-> "", start |-> "",
     command |-> <<>>, configs |-> <<>>, sent |-> 0,
     multi_response |-> [responses |-> <<>>, failed |-> FALSE]]

\* `if let Some(f) = callable { f(self)?; }` after the steps in st
RunCallable(callable, name, st) ==
    IF st.r.kind = "err" \/ callable = "none" THEN st
    ELSE [log |-> Append(st.log, Ev(name, "")),
          r |-> IF callable = "err" THEN Err("callable failed") ELSE st.r]

MaxOps == 2

drvQuiet == <<queue, depth, errq, rlpc, rlbuf, reads, produced, delivered, now, dev>>

CanCall == pc \in {"idle", "done"} /\ net.opened /\ loc.calls < MaxOps

StartCall(o, p, l) ==
    /\ op' = o
    /\ pc' = p
    /\ loc' = l
    /\ result' = NoResult
    /\ written' = <<>>
    /\ net' = [net EXCEPT !.log = <<>>]
    /\ UNCHANGED <<drvQuiet, doneq, topen, args, drv>>

(***************************************************************************)
(* open                                                                    *)
(***************************************************************************)
CallOpen ==
    /\ pc = "idle"
    /\ ~net.opened
    /\ StartCall("open", "open_start", DrvLoc(loc.calls))
    /\ UNCHANGED opt

\* Driver::open down to generic_driver.open()
NetworkOpen ==
    /\ op = "open"
    /\ pc = "open_start"
    /\ drv' = [drv EXCEPT !.privilege_level_graph =
                              build_privilege_level_graph(drv.privilege_levels, @)]
    /\ args' = [args EXCEPT !.prompt_pattern =
                                build_joined_prompt_pattern(drv.privilege_levels)]
    /\ IF drv.default_desired_privilege_level = "" \/ drv.privilege_levels = <<>>
       THEN /\ result' = Err("default desired privilege level and/or privilege levels are unset")
            /\ pc' = "done"
       ELSE /\ pc' = "generic_open"
            /\ UNCHANGED result
    /\ UNCHANGED <<drvQuiet, doneq, topen, written, opt, net, op, loc>>

\* generic Driver::open, then the network Driver's on_open
GenericOpen ==
    /\ op = "open"
    /\ pc = "generic_open"
    /\ \E chan \in ChannelOutcomes(Ok(<<>>)) :
          LET st0 == IF chan.kind = "ok"
                     THEN [log |-> <<Ev("channel.open", "")>>, r |-> chan]
                     ELSE [log |-> <<>>, r |-> chan]
              st1 == RunCallable(drv.generic_on_open, "generic.on_open", st0)
              st2 == RunCallable(drv.on_open, "network.on_open", st1)
          IN /\ net' = [net EXCEPT !.log = @ \o st2.log, !.opened = chan.kind = "ok"]
             /\ topen' = (chan.kind = "ok")
             /\ result' = st2.r
    /\ pc' = "done"
    /\ UNCHANGED <<drvQuiet, doneq, written, args, opt, drv, op, loc>>

(***************************************************************************)
(* acquire_privilege_level                                                 *)
(***************************************************************************)
CallAcquire ==
    /\ CanCall
    /\ \E t \in LevelNames(drv.privilege_levels) \cup {"bogus"} :
          StartCall("acquire_privilege_level", "aq_start",
                    [DrvLoc(loc.calls + 1) EXCEPT !.target = t, !.start = net.level])
    /\ UNCHANGED opt

\* where acquire_privilege_level returns to with r
AfterAcquire(r) ==
    IF r.kind = "ok" /\ op = "send_command" THEN "sc_send"
    ELSE IF r.kind = "ok" /\ op = "send_configs" THEN "cf_send"
    ELSE "done"

AcquireReturn(r) ==
    /\ pc' = AfterAcquire(r)
    /\ result' = IF AfterAcquire(r) = "done" THEN r ELSE result

\* mutant of AcquireStart: the target is not looked up in the graph
AcquireStartUnchecked ==
    /\ pc = "aq_start"
    /\ pc' = "aq_get_prompt"
    /\ loc' = [loc EXCEPT !.action_count = 0]
    /\ UNCHANGED <<result, drvQuiet, doneq, topen, written, cfgVars, op>>

AcquireStart ==
    /\ pc = "aq_start"
    /\ IF loc.target \notin DOMAIN drv.privilege_level_graph
       THEN /\ AcquireReturn(Err("is not a valid privilege level"))
            /\ UNCHANGED loc
       ELSE /\ pc' = "aq_get_prompt"
            /\ loc' = [loc EXCEPT !.action_count = 0]
            /\ UNCHANGED result
    /\ UNCHANGED <<drvQuiet, doneq, topen, written, cfgVars, op>>

\* generic_driver.get_prompt()?: the Channel writes return_char and finds
\* the prompt in what the device answers
AcquireGetPrompt ==
    /\ pc = "aq_get_prompt"
    /\ written' = Append(written, args.return_char)
    /\ net' = [net EXCEPT !.log = Append(@, Ev("get_prompt", ""))]
    /\ \E r \in {Ok(p) : p \in DevicePrompts}
                \cup (IF dev.errors \/ DevicePrompts = {} THEN {ChannelErr} ELSE {}) :
          IF r.kind = "ok"
          THEN /\ loc' = [loc EXCEPT !.current_prompt = r.val]
               /\ pc' = "aq_process"
               /\ UNCHANGED result
          ELSE /\ AcquireReturn(Err("error fetching prompt from channel"))
               /\ UNCHANGED loc
    /\ UNCHANGED <<drvQuiet, doneq, topen, args, opt, drv, op>>

never_deescalation(l, current) == FALSE
\* `privilege_level.previous_privilege_level != current_privilege_level`
is_deescalation(l, current) == l.previous_privilege_level # current

\* what process_acquire_privilege_level returns and leaves in
\* current_privilege_level, for one privilege_change_map
ProcessStep(d, current, map) ==
    LET levels == d.privilege_levels
        hits == IF map = <<>> THEN {}
                ELSE {i \in 1..Len(levels) : levels[i].name = map[2]}
    IN IF map = <<>>
       THEN [err |-> "could not build privilege level map", action |-> "NoOp",
             next |-> "", current |-> d.current_privilege_level]
       ELSE IF hits = {}
       THEN [err |-> "could not determine action", action |-> "NoOp",
             next |-> "", current |-> "unknown"]
       ELSE IF is_deescalation(levels[MinOf(hits)], current)
       THEN [err |-> "", action |-> "Deescalate", next |-> current,
             current |-> "unknown"]
       ELSE [err |-> "", action |-> "Escalate", next |-> levels[MinOf(hits)].name,
             current |-> "unknown"]

\* every outcome of process_acquire_privilege_level (the privilege change
\* map is any of those build_privilege_change_map can return)
process_acquire_privilege_level(d, target_privilege_level, current_prompt) ==
    LET determined == determine_current_privilege_level(d.privilege_levels, current_prompt)
    IN IF ~determined.ok
       THEN {[err |-> determined.msg, action |-> "NoOp", next |-> "",
              current |-> d.current_privilege_level]}
       ELSE IF determined.name = target_privilege_level
       THEN {[err |-> "", action |-> "NoOp", next |-> determined.name,
              current |-> determined.name]}
       ELSE {ProcessStep(d, determined.name, map) :
                map \in build_privilege_change_map(d.privilege_level_graph,
                            determined.name, target_privilege_level, <<>>)}

AcquireProcess ==
    /\ pc = "aq_process"
    /\ \E o \in process_acquire_privilege_level(drv, loc.target, loc.current_prompt) :
          /\ drv' = [drv EXCEPT !.current_privilege_level = o.current]
          /\ net' = [net EXCEPT !.examined =
                        LET determined == determine_current_privilege_level(
                                              drv.privilege_levels, loc.current_prompt)
                        IN IF determined.ok THEN determined.name ELSE @]
          /\ IF o.err # "" THEN AcquireReturn(Err(o.err)) /\ UNCHANGED loc
             ELSE IF o.action = "NoOp" THEN AcquireReturn(Ok(<<>>)) /\ UNCHANGED loc
             ELSE /\ pc' = "aq_act"
                  /\ loc' = [loc EXCEPT !.action = o.action,
                                         !.next_privilege_level = o.next]
                  /\ UNCHANGED result
    /\ UNCHANGED <<drvQuiet, doneq, topen, written, args, opt, op>>

\* the writes of deescalate_privilege_level / escalate_privilege_level for
\* the level l: send_input writes the input and return_char, the two-event
\* send_interactive writes each event's input and return_char
deescalate_by_escalate(l) == <<l.escalate, args.return_char>>
deescalate_privilege_level(l) == <<l.de_escalate, args.return_char>>

escalate_with_auth(d, l) == l.escalate_auth /\ d.secondary_password # <<>>

escalate_events_visible(d, l) ==
    <<Event(l.escalate, l.escalate_prompt, FALSE),
      Event(d.secondary_password, l.pattern, FALSE)>>
\* the SendInteractiveEvents of an escalation with authentication
escalate_events(d, l) ==
    <<Event(l.escalate, l.escalate_prompt, FALSE),
      Event(d.secondary_password, l.pattern, TRUE)>>

escalate_privilege_level(d, l) ==
    IF ~escalate_with_auth(d, l)
    THEN <<l.escalate, args.return_char>>
    ELSE <<escalate_events(d, l)[1].input, args.return_char,
           escalate_events(d, l)[2].input, args.return_char>>

ActionWrites(d, action, l) ==
    IF action = "Deescalate" THEN deescalate_privilege_level(l)
    ELSE escalate_privilege_level(d, l)

\* `action_count > self.args.privilege_levels.len() * 2`
action_limit_reached(action_count, levels) == action_count > Len(levels) * 2

AcquireAct ==
    /\ pc = "aq_act"
    /\ IF loc.next_privilege_level \notin LevelNames(drv.privilege_levels)
       THEN /\ AcquireReturn(Err("unknown privilege leve, this is a bug"))
            /\ UNCHANGED <<written, net, loc>>
       ELSE LET l == FindLevel(drv.privilege_levels, loc.next_privilege_level)
                w == ActionWrites(drv, loc.action, l)
            IN \E r \in ChannelOutcomes(Ok(<<>>)) :
               \E n \in (IF r.kind = "ok" THEN {Len(w)} ELSE 0..Len(w)) :
                  /\ written' = written \o SubSeq(w, 1, n)
                  /\ net' = [net EXCEPT
                               !.log = Append(@, Ev(loc.action, l.name)),
                               !.examined = IF n = 0 THEN @ ELSE "",
                               !.level = IF net.mode = "obedient" /\ n = Len(w)
                                         THEN DeviceAfter(drv.privilege_levels, @, w[1])
                                         ELSE @]
                  /\ IF r.kind = "err"
                     THEN AcquireReturn(r) /\ UNCHANGED loc
                     ELSE /\ loc' = [loc EXCEPT !.action_count = @ + 1]
                          /\ IF action_limit_reached(loc.action_count + 1,
                                                     drv.privilege_levels)
                             THEN AcquireReturn(Err("failed to acquire target privilege level"))
                             ELSE pc' = "aq_get_prompt" /\ UNCHANGED result
    /\ UNCHANGED <<drvQuiet, doneq, topen, args, opt, drv, op>>

(***************************************************************************)
(* send_command                                                            *)
(***************************************************************************)
CallSendCommand ==
    /\ CanCall
    /\ StartCall("send_command", "sc_start",
                 [DrvLoc(loc.calls + 1) EXCEPT !.command = <<"show">>,
                                               !.start = net.level])
    /\ UNCHANGED opt

never_acquire(d) == FALSE
\* `self.current_privilege_level != self.args.default_desired_privilege_level`
needs_acquire(d) == d.current_privilege_level # d.default_desired_privilege_level

\* Driver::send_command_with_options down to the acquire or the delegation
NetworkSendCommand ==
    /\ op = "send_command"
    /\ pc = "sc_start"
    /\ IF needs_acquire(drv)
       THEN /\ pc' = "aq_start"
            /\ loc' = [loc EXCEPT !.target = drv.default_desired_privilege_level]
       ELSE /\ pc' = "sc_send"
            /\ UNCHANGED loc
    /\ UNCHANGED <<drvQuiet, doneq, topen, written, cfgVars, op, result>>

\* one Channel send_input of the generic Driver: writes input and return_char
\* (a failing call may have written less), reads what is queued and
\* returns r
GenericSendInput(input, r) ==
    \E n \in (IF r.kind = "ok" THEN {2} ELSE 0..2) :
       /\ written' = written \o SubSeq(<<input, args.return_char>>, 1, n)
       /\ net' = [net EXCEPT !.log = Append(@, Ev("send_input", input[1]))]
       /\ queue' = IF n = 2 THEN <<>> ELSE queue
       /\ depth' = IF n = 2 THEN 0 ELSE depth

\* Response::new
Response(input, failed_when_contains) ==
    [input |-> input, result |-> <<>>,
     failed_when_contains |-> failed_when_contains, failed |-> TRUE]

\* Response::record: failed stays true when the result contains one of
\* failed_when_contains
record(response, b) ==
    LET is_failed == \E i \in 1..Len(response.failed_when_contains) :
                        is_sub(b, response.failed_when_contains[i])
    IN [response EXCEPT !.result = b,
                        !.failed = IF is_failed THEN @ ELSE FALSE]

\* MultiResponse::record_response
record_response(multi_response, response) ==
    [responses |-> Append(multi_response.responses, response),
     failed |-> IF response.failed THEN TRUE ELSE multi_response.failed]

\* the Response of generic send_command_with_options when the Channel's
\* send_input returns Ok(rb)
send_command_response(command, options, rb) ==
    record(Response(command,
                    IF options.failed_when_contains = <<>>
                    THEN drv.failed_when_contains
                    ELSE options.failed_when_contains),
           rb)

drvStill == <<errq, rlpc, rlbuf, reads, produced, delivered, now, dev>>

\* generic Driver::send_command_with_options
GenericSendCommand ==
    /\ op = "send_command"
    /\ pc = "sc_send"
    /\ \E out \in net.outputs : \E r \in ChannelOutcomes(Ok(out)) :
          /\ GenericSendInput(loc.command, r)
          /\ result' = IF r.kind = "err" THEN r
                       ELSE Ok(<<send_command_response(loc.command, opt, r.val)>>)
    /\ pc' = "done"
    /\ UNCHANGED <<drvStill, doneq, topen, args, opt, drv, op, loc>>

(***************************************************************************)
(* send_configs                                                            *)
(***************************************************************************)
ConfigLines == {<<>>, <<<<"line1">>, <<"line2">>>>}

CallSendConfigs ==
    /\ CanCall
    /\ \E privilege_level \in {"", "tclsh", "bogus"}, configs \in ConfigLines :
          /\ opt' = NetOptions(privilege_level)
          /\ StartCall("send_configs", "cf_start",
                       [DrvLoc(loc.calls + 1) EXCEPT !.configs = configs,
                                                     !.start = net.level])

configs_target_default(options) == DEFAULT_CONFIGURATION_PRIVILEGE_LEVEL
configs_target(options) ==
    IF options.privilege_level = "" THEN DEFAULT_CONFIGURATION_PRIVILEGE_LEVEL
    ELSE options.privilege_level

\* Driver::send_configs down to the acquire
NetworkSendConfigs ==
    /\ op = "send_configs"
    /\ pc = "cf_start"
    /\ pc' = "aq_start"
    /\ loc' = [loc EXCEPT !.target = configs_target(opt)]
    /\ UNCHANGED <<drvQuiet, doneq, topen, written, cfgVars, op, result>>

empty_commands_ok == Ok(<<>>)
\* `if commands.is_empty() { return Err(...) }`
empty_commands_error == Err("send_commands called with empty vec of commands")

never_stops(options, failed) == FALSE
\* `options.stop_on_failed && failed`
stops_on_failed(options, failed) == options.stop_on_failed /\ failed

\* generic Driver::send_commands_with_options: the emptiness test, then one
\* step per command (the stop_on_failed test follows every command but the
\* last, after which the MultiResponse is returned anyway)
GenericSendCommands ==
    /\ op \in {"send_configs", "send_commands"}
    /\ pc = "cf_send"
    /\ IF loc.configs = <<>>
       THEN /\ result' = empty_commands_error
            /\ pc' = "done"
            /\ UNCHANGED <<written, net, loc, queue, depth>>
       ELSE \E out \in net.outputs : \E r \in ChannelOutcomes(Ok(out)) :
               LET command == loc.configs[loc.sent + 1]
                   response == send_command_response(command, opt, r.val)
                   multi_response == record_response(loc.multi_response, response)
               IN /\ GenericSendInput(command, r)
                  /\ IF r.kind = "err"
                     THEN /\ result' = r
                          /\ pc' = "done"
                          /\ UNCHANGED loc
                     ELSE /\ loc' = [loc EXCEPT !.sent = @ + 1,
                                                !.multi_response = multi_response]
                          /\ IF \/ loc.sent + 1 = Len(loc.configs)
                                \/ stops_on_failed(opt, response.failed)
                             THEN /\ result' = Ok(multi_response.responses)
                                  /\ pc' = "done"
                             ELSE UNCHANGED <<result, pc>>
    /\ UNCHANGED <<drvStill, doneq, topen, args, opt, drv, op>>

(***************************************************************************)
(* close                                                                   *)
(***************************************************************************)
CallClose ==
    /\ pc \in {"idle", "done"}
    /\ net.opened
    /\ \/ StartCall("close", "close_start", DrvLoc(loc.calls))
       \/ StartCall("generic.close", "generic_close", DrvLoc(loc.calls))
    /\ UNCHANGED opt

\* Driver::close down to generic_driver.close()
NetworkClose ==
    /\ op = "close"
    /\ pc = "close_start"
    /\ LET st == RunCallable(drv.on_close, "network.on_close",
                             [log |-> <<>>, r |-> Ok(<<>>)])
       IN /\ net' = [net EXCEPT !.log = @ \o st.log]
          /\ IF st.r.kind = "err"
             THEN result' = st.r /\ pc' = "done"
             ELSE pc' = "generic_close" /\ UNCHANGED result
    /\ UNCHANGED <<drvQuiet, doneq, topen, written, args, opt, drv, op, loc>>

\* the callable the generic close tests and calls: `self.args.on_open`
close_callable(d) == d.generic_on_open

\* mutant of GenericClose: Channel.close is called whatever the callable
\* returned
GenericCloseAfterError ==
    /\ op \in {"close", "generic.close"}
    /\ pc = "generic_close"
    /\ LET st == RunCallable(close_callable(drv), "generic.on_open",
                             [log |-> <<>>, r |-> Ok(<<>>)])
       IN \E r \in ChannelOutcomes(Ok(<<>>)) :
             /\ net' = [net EXCEPT !.log = @ \o st.log \o <<Ev("channel.close", "")>>,
                                   !.opened = FALSE]
             /\ doneq' = Append(doneq, TRUE)
             /\ topen' = FALSE
             /\ result' = IF st.r.kind = "err" THEN st.r ELSE r
    /\ pc' = "done"
    /\ UNCHANGED <<drvQuiet, written, args, opt, drv, op, loc>>

\* generic Driver::close: the callable, then Channel.close
GenericClose ==
    /\ op \in {"close", "generic.close"}
    /\ pc = "generic_close"
    /\ LET st == RunCallable(close_callable(drv), "generic.on_open",
                             [log |-> <<>>, r |-> Ok(<<>>)])
       IN IF st.r.kind = "err"
          THEN /\ net' = [net EXCEPT !.log = @ \o st.log]
               /\ result' = st.r
               /\ UNCHANGED <<doneq, topen>>
          ELSE \E r \in ChannelOutcomes(Ok(<<>>)) :
                  /\ net' = [net EXCEPT !.log = @ \o st.log \o <<Ev("channel.close", "")>>,
                                        !.opened = FALSE]
                  /\ doneq' = Append(doneq, TRUE)
                  /\ topen' = FALSE
                  /\ result' = r
    /\ pc' = "done"
    /\ UNCHANGED <<drvQuiet, written, args, opt, drv, op, loc>>

(***************************************************************************)
(* The driver specification: a session of open, up to MaxOps operations    *)
(* and close, over the scenarios below.                                    *)
(***************************************************************************)
IosLevels ==
    <<PrivilegeLevel("exec", Literal(">"), <<>>, "", <<"none">>, <<"none">>,
                     FALSE, Literal("")),
      PrivilegeLevel("privilege_exec", Literal("#"), <<<<"c">>, <<"t">>>>, "exec",
                     <<"disable">>, <<"enable">>, TRUE, Literal("P")),
      PrivilegeLevel("configuration", Literal("c"), <<<<"t">>>>, "privilege_exec",
                     <<"end">>, <<"conf">>, FALSE, Literal("")),
      PrivilegeLevel("tclsh", Literal("t"), <<<<"c">>>>, "privilege_exec",
                     <<"tclquit">>, <<"tclsh">>, FALSE, Literal(""))>>

\* two levels whose patterns do not tell every prompt apart
SloppyLevels ==
    <<PrivilegeLevel("exec", Literal(">"), <<<<"c">>>>, "", <<"none">>, <<"none">>,
                     FALSE, Literal("")),
      PrivilegeLevel("privilege_exec", Literal("#"), <<>>, "exec",
                     <<"disable">>, <<"enable">>, FALSE, Literal(""))>>

ArbitraryPrompts ==
    {<<"r", ">">>, <<"r", "#">>, <<"r", ">", "#">>, <<"r", "c", ">">>}

Callables == {"none", "ok", "err"}

DriverScenario(d, n, errors) == [drv |-> d, net |-> n, errors |-> errors]

DriverScenarios ==
    {DriverScenario(NetworkDriver(IosLevels, "privilege_exec", pw,
                                  "none", "none", "none", "none"),
                    NetDevice("obedient", l, {}), e) :
        pw \in {<<>>, <<"pwd2">>}, l \in LevelNames(IosLevels), e \in BOOLEAN}
    \cup {DriverScenario(NetworkDriver(SloppyLevels, "exec", <<>>,
                                       "none", "none", "none", "none"),
                         NetDevice("arbitrary", "", ArbitraryPrompts), FALSE)}
    \cup {DriverScenario(NetworkDriver(SloppyLevels, "exec", <<>>, a, b, c, d),
                         NetDevice("obedient", "exec", {}), FALSE) :
             a \in {"none", "ok"}, b \in Callables, c \in Callables, d \in Callables}
    \cup {DriverScenario(NetworkDriver(<<>>, "exec", <<>>, "none", "none", "none", "none"),
                         NetDevice("obedient", "exec", {}), FALSE),
          DriverScenario(NetworkDriver(SloppyLevels, "", <<>>, "none", "none", "none", "none"),
                         NetDevice("obedient", "exec", {}), FALSE)}

InitDriver ==
    /\ queue = <<>>
    /\ depth = 0
    /\ errq = <<>>
    /\ doneq = <<>>
    /\ rlpc = "check"
    /\ rlbuf = <<>>
    /\ topen = FALSE
    /\ written = <<>>
    /\ reads = 0
    /\ now = 0
    /\ produced = <<>>
    /\ delivered = <<>>
    /\ result = NoResult
    /\ args = DefaultArgs
    /\ opt = NetOptions("")
    /\ op = "none"
    /\ pc = "idle"
    /\ loc = DrvLoc(0)
    /\ \E s \in DriverScenarios :
          /\ drv = s.drv
          /\ net = s.net
          /\ dev = Device({}, 0, s.errors, FALSE)

NextDriver ==
    \/ CallOpen \/ NetworkOpen \/ GenericOpen
    \/ CallAcquire \/ AcquireStart \/ AcquireGetPrompt \/ AcquireProcess \/ AcquireAct
    \/ CallSendCommand \/ NetworkSendCommand \/ GenericSendCommand
    \/ CallSendConfigs \/ NetworkSendConfigs \/ GenericSendCommands
    \/ CallClose \/ NetworkClose \/ GenericClose

SpecDriver == InitDriver /\ [][NextDriver]_vars

\* the escalate / de-escalate actions of the current call
ActionsOf(log) == SelectSeq(log, LAMBDA e : e.ev \in {"Escalate", "Deescalate"})

\* two levels joined by a previous link
Adjacent(levels, a, b) ==
    \E i \in 1..Len(levels) :
       \/ levels[i].name = a /\ levels[i].previous_privilege_level = b
       \/ levels[i].name = b /\ levels[i].previous_privilege_level = a

RECURSIVE DistanceFrom(_, _, _, _)
\* the number of previous links between the levels of S and t, counted from k
DistanceFrom(levels, S, t, k) ==
    IF t \in S \/ k > Len(levels) THEN k
    ELSE DistanceFrom(levels,
                      S \cup {b \in LevelNames(levels) :
                                 \E a \in S : Adjacent(levels, a, b)},
                      t, k + 1)

Distance(levels, s, t) == DistanceFrom(levels, {s}, t, 0)

\* C11: against a device that changes level as the commands say, an
\* acquire_privilege_level(t) started with the device at level s returns Ok
\* with the device (and the tracked level) at t after exactly distance(s, t)
\* escalate / de-escalate actions.
C11_AcquireTakesDistanceActions ==
    (/\ op = "acquire_privilege_level"
     /\ pc = "done"
     /\ net.mode = "obedient"
     /\ ~dev.errors
     /\ loc.target \in LevelNames(drv.privilege_levels)) =>
        /\ result.kind = "ok"
        /\ net.level = loc.target
        /\ drv.current_privilege_level = loc.target
        /\ Len(ActionsOf(net.log)) = Distance(drv.privilege_levels, loc.start, loc.target)

C11_Witness ==
    /\ op = "acquire_privilege_level"
    /\ pc = "done"
    /\ net.mode = "obedient"
    /\ ~dev.errors
    /\ result.kind = "ok"
    /\ loc.start = "configuration"
    /\ loc.target = "tclsh"
    /\ net.level = "tclsh"
    /\ [i \in 1..2 |-> ActionsOf(net.log)[i].ev] = <<"Deescalate", "Escalate">>

\* C12: one call of acquire_privilege_level performs at most
\* 2 x |privilege_levels| escalate / de-escalate actions, whatever prompts
\* the device returns.
C12_AtMostTwiceLevelsActions ==
    Len(ActionsOf(net.log)) <= 2 * Len(drv.privilege_levels)

(***************************************************************************)
(* The escalation dialog specification: the send_interactive that          *)
(* escalate_privilege_level starts for a level with escalate_auth and a    *)
(* non-empty secondary_password, run by the Channel of the send            *)
(* specification against a device that sends its chunks in any order.      *)
(***************************************************************************)
EscalateReads == 4

EscalateChunks == {<<"enable">>, <<"P">>, <<"r", "#">>}

AuthLevels(d) ==
    {i \in 1..Len(d.privilege_levels) :
        escalate_with_auth(d, d.privilege_levels[i])}

InitEscalate ==
    /\ InitChannel
    /\ opt = DefaultOptions
    /\ op = "send_interactive"
    /\ pc = "sx_start"
    /\ net = [NetDevice("obedient", "exec", {}) EXCEPT !.opened = TRUE]
    /\ dev = Device(EscalateChunks, EscalateReads, TRUE, FALSE)
    /\ \E pw \in {<<"pwd2">>} :
          drv = [NetworkDriver(IosLevels, "privilege_exec", pw,
                               "none", "none", "none", "none")
                 EXCEPT !.privilege_level_graph =
                            build_privilege_level_graph(IosLevels, EmptyGraph)]
    /\ args = [DefaultArgs EXCEPT !.prompt_pattern = build_joined_prompt_pattern(IosLevels)]
    /\ \E i \in AuthLevels(drv) :
          loc = [SendLoc EXCEPT !.events = escalate_events(drv, drv.privilege_levels[i]),
                                !.input = <<drv.privilege_levels[i].name>>]

NextEscalate ==
    \/ ReadLoop
    \/ Tick
    \/ SendInteractive

SpecEscalate == InitEscalate /\ [][NextEscalate]_vars

\* the level whose escalation is under way
EscalatingLevel == FindLevel(drv.privilege_levels, loc.input[1])

\* C13: in an escalation with authentication the driver writes n.escalate,
\* writes return only once the echo has been read, writes secondary_password
\* only after n.escalate_prompt has matched what the device sent since that
\* return, waits for no echo of the password, and returns Ok only with
\* n.pattern matching what the device sent after the password's return.
C13_PasswordOnlyAfterEscalatePrompt ==
    LET n == EscalatingLevel
        dialog == <<n.escalate, args.return_char,
                    drv.secondary_password, args.return_char>>
    IN op = "send_interactive" =>
        /\ Len(written) <= 4
        /\ written = SubSeq(dialog, 1, Len(written))
        /\ Len(written) >= 2 => is_sub(loc.b, n.escalate)
        /\ (pc = "sx_write" /\ loc.idx = 2) =>
              /\ written = SubSeq(dialog, 1, 2)
              /\ IsMatch(n.escalate_prompt, loc.rb)
        /\ Len(written) >= 3 => loc.idx = 2 /\ pc # "sx_echo"
        /\ (pc = "done" /\ result.kind = "ok") =>
              /\ written = dialog
              /\ IsMatch(n.pattern, loc.rb)

C13_Witness ==
    /\ op = "send_interactive"
    /\ loc.events = escalate_events(drv, EscalatingLevel)
    /\ pc = "done"
    /\ result.kind = "ok"
    /\ written = <<<<"enable">>, args.return_char, drv.secondary_password,
                   args.return_char>>
    /\ IsMatch(EscalatingLevel.pattern, loc.rb)

\* what the classification of the prompt read last says
Classified == determine_current_privilege_level(drv.privilege_levels, loc.current_prompt)

\* whether the current call has run acquire_privilege_level as far as a prompt
AcquireRan == \E i \in 1..Len(net.log) : net.log[i].ev = "get_prompt"

\* C14: send_command writes the command only with the tracked current
\* privilege level equal to default_desired_privilege_level; when an
\* acquisition was needed it has ended with the prompt classified as that
\* level, and a failed acquisition leaves the command unwritten.
C14_CommandOnlyAtDefaultLevel ==
    op = "send_command" =>
        /\ (pc = "sc_send" \/ loc.command \in Range(written)) =>
              /\ drv.current_privilege_level = drv.default_desired_privilege_level
              /\ AcquireRan =>
                    /\ Classified.ok
                    /\ Classified.name = drv.default_desired_privilege_level
        /\ (pc = "done" /\ result.kind = "ok") => loc.command \in Range(written)
        /\ (pc = "done" /\ drv.current_privilege_level # drv.default_desired_privilege_level) =>
              /\ result.kind = "err"
              /\ loc.command \notin Range(written)

C14_Witness ==
    /\ op = "send_command"
    /\ pc = "done"
    /\ result.kind = "ok"
    /\ Len(ActionsOf(net.log)) = 2
    /\ net.log[Len(net.log)] = Ev("send_input", "show")
    /\ written[Len(written) - 1] = <<"show">>
    /\ drv.current_privilege_level = drv.default_desired_privilege_level

\* C15: when the network driver's open returns Ok, the tracked current
\* privilege level equals default_desired_privilege_level (the default level
\* has been acquired).
C15_OpenAcquiresDefaultLevel ==
    (op = "open" /\ pc = "done" /\ result.kind = "ok") =>
        drv.current_privilege_level = drv.default_desired_privilege_level

\* the commands an action step may write first, given the classified level c
\* and the target: for some planned path with second element n, n.escalate
\* if n.previous = c and c.de_escalate otherwise
ExpectedCommands(d, c, target) ==
    {IF FindLevel(d.privilege_levels, map[2]).previous_privilege_level = c
     THEN FindLevel(d.privilege_levels, map[2]).escalate
     ELSE FindLevel(d.privilege_levels, c).de_escalate :
        map \in {mp \in build_privilege_change_map(d.privilege_level_graph, c, target, <<>>) :
                    Len(mp) >= 2 /\ mp[2] \in LevelNames(d.privilege_levels)}}

\* C16: the step taken for a classified level c that is not the target
\* writes n.escalate when n.previous = c (n the second element of the planned
\* path) and c.de_escalate otherwise, and beyond that command only return
\* and, in an escalation, the secondary password.
C16_StepWritesTheRightCommand ==
    [][(pc = "aq_act" /\ written' # written) =>
         LET c == Classified.name
             new == SubSeq(written', Len(written) + 1, Len(written'))
         IN /\ Classified.ok
            /\ c # loc.target
            /\ new[1] \in ExpectedCommands(drv, c, loc.target)
            /\ \A i \in 2..Len(new) :
                  \/ new[i] = args.return_char
                  \/ /\ new[i] = drv.secondary_password
                     /\ FindLevel(drv.privilege_levels, loc.next_privilege_level).escalate = new[1]
            /\ written = SubSeq(written', 1, Len(written))]_vars

C16_Witness ==
    /\ op = "acquire_privilege_level"
    /\ pc = "aq_get_prompt"
    /\ loc.target = "tclsh"
    /\ loc.current_prompt = PromptOf("configuration")
    /\ net.log[Len(net.log)] = Ev("Deescalate", "configuration")
    /\ SubSeq(written, Len(written) - 1, Len(written)) = <<<<"end">>, args.return_char>>

\* a level qualifies for a prompt when its pattern matches the prompt and
\* none of its not_contains substrings occurs in it
Qualifying(levels, prompt) ==
    {i \in 1..Len(levels) :
        /\ IsMatch(levels[i].pattern, prompt)
        /\ \A k \in 1..Len(levels[i].not_contains) :
              ~is_sub(prompt, levels[i].not_contains[k])}

\* C18: determine_current_privilege_level returns level L exactly when L is
\* the only qualifying level, and an error otherwise; after an error
\* acquire_privilege_level fails with it and performs no action.
C18_OnlyQualifyingLevelOrError ==
    (AcquireRan /\ pc # "aq_get_prompt") =>
        LET Q == Qualifying(drv.privilege_levels, loc.current_prompt)
        IN /\ Classified.ok <=> Cardinality(Q) = 1
           /\ Classified.ok => \A i \in Q : drv.privilege_levels[i].name = Classified.name
           /\ pc = "aq_act" => Classified.ok
           /\ (/\ ~Classified.ok
               /\ pc # "aq_process"
               /\ net.log[Len(net.log)].ev = "get_prompt"
               /\ result.msg # "error fetching prompt from channel") =>
                  /\ pc = "done"
                  /\ result.kind = "err"
                  /\ result.msg = Classified.msg

C18_Witness ==
    /\ op = "acquire_privilege_level"
    /\ pc = "done"
    /\ result.kind = "err"
    /\ result.msg = "found *more than one matching privilege level*"
    /\ Cardinality(Qualifying(drv.privilege_levels, loc.current_prompt)) = 2
    /\ Len(ActionsOf(net.log)) = 1
    /\ net.log[Len(net.log)].ev = "get_prompt"

\* the config lines written so far in the current call
ConfigsWritten == {i \in 1..Len(written) : written[i] \in Range(loc.configs)}

\* C19: send_configs writes a config line only after acquire_privilege_level
\* of opt.privilege_level ("configuration" when that is empty) has succeeded,
\* and none when that acquisition fails or that level is not configured.
C19_ConfigsOnlyAtRequestedLevel ==
    op = "send_configs" =>
        LET t == IF opt.privilege_level = "" THEN "configuration"
                 ELSE opt.privilege_level
        IN /\ (pc = "cf_send" \/ ConfigsWritten # {}) =>
                 /\ t \in LevelNames(drv.privilege_levels)
                 /\ AcquireRan
                 /\ Classified.ok
                 /\ Classified.name = t
                 /\ drv.current_privilege_level = t
           /\ (pc = "done" /\ result.kind = "ok") => ConfigsWritten # {}
           /\ t \notin LevelNames(drv.privilege_levels) => ConfigsWritten = {}

C19_Witness ==
    /\ op = "send_configs"
    /\ pc = "done"
    /\ result.kind = "ok"
    /\ opt.privilege_level = "tclsh"
    /\ loc.start = "configuration"
    /\ Len(ActionsOf(net.log)) = 2
    /\ Cardinality(ConfigsWritten) = 2
    /\ drv.current_privilege_level = "tclsh"

\* the callables of the generic driver run in the current call
GenericCalls(name) == {i \in 1..Len(net.log) : net.log[i].ev = name}

\* C20: the generic driver's close invokes on_close, not on_open, exactly
\* once and before the Channel is closed, and no callable when on_close is
\* not set.
C20_CloseRunsOnClose ==
    (op \in {"close", "generic.close"} /\ pc = "done") =>
        /\ GenericCalls("generic.on_open") = {}
        /\ drv.generic_on_close = "none" => GenericCalls("generic.on_close") = {}
        /\ drv.generic_on_close # "none" =>
              /\ Cardinality(GenericCalls("generic.on_close")) = 1
              /\ \A i \in GenericCalls("generic.on_close") :
                 \A j \in GenericCalls("channel.close") : i < j

\* ---------------------------------------------------------------------------
\* generic Driver::send_commands on its own: command lists, stop_on_failed and
\* failed_when_contains of every kind, a device whose output may hold the
\* failure text "!", chunks already queued when the call starts

MaxCommands == 3

CommandWords == {<<"line1">>, <<"line2">>, <<"show">>}

CommandLists ==
    UNION {[1..n -> CommandWords] : n \in 0..MaxCommands}

FailedWhenContains == {<<>>, <<<<"!">>>>}

CommandOutputs == {<<"r", "#">>, <<"!", "r", "#">>}

InitCommands ==
    /\ errq = <<>>
    /\ doneq = <<>>
    /\ rlpc = "check"
    /\ rlbuf = <<>>
    /\ topen = TRUE
    /\ written = <<>>
    /\ reads = 0
    /\ now = 0
    /\ produced = <<>>
    /\ delivered = <<>>
    /\ result = NoResult
    /\ args = DefaultArgs
    /\ op = "send_commands"
    /\ pc = "cf_send"
    /\ \E q \in {<<>>, <<<<"m">>>>} :
          /\ queue = q
          /\ depth = Len(q)
    /\ \E errors \in BOOLEAN : dev = Device({}, 0, errors, FALSE)
    /\ net = [NetDevice("obedient", "exec", {}) EXCEPT !.opened = TRUE,
                                                       !.outputs = CommandOutputs]
    /\ \E fwc \in FailedWhenContains :
          drv = [NetworkDriver(<<>>, "", <<>>, "none", "none", "none", "none")
                 EXCEPT !.failed_when_contains = fwc]
    /\ \E fwc \in FailedWhenContains, stop \in BOOLEAN :
          opt = GenericOptions(fwc, stop)
    /\ \E commands \in CommandLists :
          loc = [DrvLoc(1) EXCEPT !.configs = commands]

NextCommands == GenericSendCommands

SpecCommands == InitCommands /\ [][NextCommands]_vars

\* input and return_char of the first n commands, in list order
CommandsWritten(n) ==
    /\ Len(written) = 2 * n
    /\ \A i \in 1..n : /\ written[2 * i - 1] = loc.configs[i]
                       /\ written[2 * i] = args.return_char

\* C21: for a non-empty command list and no error, send_commands writes the
\* commands strictly in list order and returns one Response per command sent,
\* in the order sent; with stop_on_failed it stops after the first failed
\* Response (no later command is written), without it every command is sent
C21_CommandsInOrderStopOnFailed ==
    (op = "send_commands" /\ ~dev.errors /\ loc.configs # <<>>) =>
        LET responses == loc.multi_response.responses
        IN /\ loc.sent <= Len(loc.configs)
           /\ CommandsWritten(loc.sent)
           /\ Len(responses) = loc.sent
           /\ \A i \in 1..loc.sent : responses[i].input = loc.configs[i]
           /\ \A i \in 1..(loc.sent - 1) :
                 ~(opt.stop_on_failed /\ responses[i].failed)
           /\ pc = "done" =>
                 /\ result = Ok(responses)
                 /\ \/ loc.sent = Len(loc.configs)
                    \/ opt.stop_on_failed /\ responses[loc.sent].failed
                 /\ ~opt.stop_on_failed => loc.sent = Len(loc.configs)

C21_Witness ==
    /\ op = "send_commands" /\ ~dev.errors /\ pc = "done"
    /\ opt.stop_on_failed
    /\ Len(loc.configs) = 3
    /\ loc.sent = 2
    /\ ~loc.multi_response.responses[1].failed
    /\ loc.multi_response.responses[2].failed
    /\ written = <<loc.configs[1], args.return_char, loc.configs[2], args.return_char>>

\* C22: send_commands with an empty command list returns an error at once,
\* writes nothing to the Transport and consumes nothing from the queue
C22_EmptyCommandsError ==
    [][(op = "send_commands" /\ pc = "cf_send" /\ loc.configs = <<>>) =>
          /\ pc' = "done"
          /\ result'.kind = "err"
          /\ result'.msg = "send_commands called with empty vec of commands"
          /\ written' = written
          /\ queue' = queue
          /\ depth' = depth]_vars

C22_Witness ==
    /\ op = "send_commands" /\ pc = "done" /\ loc.configs = <<>>
    /\ result.kind = "err"
    /\ written = <<>>
    /\ queue = <<<<"m">>>>
    /\ depth = 1

\* ---------------------------------------------------------------------------
\* Channel::open and the requeue of what the authentication read

\* C23: when in-band authentication succeeds, what it read up to and
\* including the prompt is at the front of the queue when open returns, ahead
\* of every chunk the Read Loop has enqueued in the meantime
C23_OpenRequeuesWhatAuthRead ==
    (op = "open" /\ pc = "done" /\ result.kind = "ok" /\ ~args.auth_bypass) =>
        /\ queue # <<>>
        /\ queue[1] = loc.consumed

\* the part that holds: what authenticate_telnet / _ssh returned is at the
\* front of the queue
C23_OpenRequeuesWhatAuthReturned ==
    (op = "open" /\ pc = "done" /\ result.kind = "ok" /\ ~args.auth_bypass) =>
        /\ queue # <<>>
        /\ queue[1] = loc.rb
        /\ depth = Len(queue)

\* C24: every return of the watch on output that matches a configured
\* username, password or passphrase pattern (and not the prompt) is counted
\* by the script as a sighting of that prompt, which it answers or fails on
C24_ConfiguredPatternsClassify ==
    (op = "open" /\ ~args.auth_bypass /\ pc \in {"auth_watch", "auth_write", "open_requeue", "done"}) =>
        \A kind \in {AuthFirstKind, AuthSecondKind} :
           loc.seen[kind] = loc.watched[kind]

\* ---------------------------------------------------------------------------
\* The Transport and Queue mutexes.  The Read Loop and the user thread are
\* followed lock by lock: a thread at "..._lock" is blocked in lock(), a
\* thread at "..._held" owns the guard.  Who holds a mutex is a function of
\* the two positions.

loop_holds_transport_wide(p) == p \in {"t_held", "q_lock", "q_held"}
\* the guard bound by `if let Ok(mut unlocked_transport) = transport.lock()`
\* lives for the block that calls read()
loop_holds_transport(p) == p = "t_held"

\* `unlocked_queue` lives from queue.lock() to drop(unlocked_queue)
loop_holds_queue(p) == p = "q_held"

\* Channel::write, write_return and close hold the guard inside their match arm
user_holds_transport(p) == p \in {"w_held", "c_held"}

\* Channel::read holds `q` from queue.lock() to its return
user_holds_queue(p) == p = "r_held"

TransportLockFree == ~loop_holds_transport(rlpc) /\ ~user_holds_transport(pc)

QueueLockFree == ~loop_holds_queue(rlpc) /\ ~user_holds_queue(pc)

done_ignored(dq) == FALSE
\* read_done_receiver.try_recv() returns Ok
done_received(dq) == dq # <<>>

lockLoopQuiet == <<topen, written, now, produced, delivered, cfgVars, op, pc, result>>

lockLoopKeeps == <<lockLoopQuiet, loc>>

\* history: a Transport read or an enqueue made while the done signal is
\* sent and not yet received is counted in late_reads or late_enqueues, and
\* a read made on the closed Transport is noted in read_closed
\* the two counts stop at LateCap
LateCap == 2

LateCount(n) == IF doneq # <<>> /\ n < LateCap THEN n + 1 ELSE n

LateRead(l) ==
    [l EXCEPT !.late_reads = LateCount(@),
              !.read_closed = @ \/ ~topen]

LateEnqueue(l) ==
    [l EXCEPT !.late_enqueues = LateCount(@)]

lockUserKeeps == <<rlpc, rlbuf, reads, now, produced, delivered, cfgVars, op>>

\* the top of the loop: try_recv on the done channel
Loop_TryRecvDone ==
    /\ rlpc = "check"
    /\ IF done_received(doneq)
       THEN /\ rlpc' = "exited"
            /\ doneq' = Tail(doneq)
       ELSE /\ rlpc' = "t_lock"
            /\ UNCHANGED doneq
    /\ UNCHANGED <<queue, depth, errq, rlbuf, reads, lockLoopKeeps>>

\* transport.lock() returns
Loop_LockTransport ==
    /\ rlpc = "t_lock"
    /\ TransportLockFree
    /\ rlpc' = "t_held"
    /\ UNCHANGED <<queue, depth, errq, doneq, rlbuf, reads, lockLoopKeeps>>

\* unlocked_transport.read() and the end of the block: nothing, a chunk, or
\* an error that is published before the sleep
Loop_TransportRead ==
    /\ rlpc = "t_held"
    /\ \/ /\ rlpc' = "sleep"
          /\ UNCHANGED <<rlbuf, errq, reads>>
       \/ /\ topen
          /\ reads < dev.maxReads
          /\ \E c \in dev.chunks :
                rlbuf' = IF ANSI_ESCAPE_BYTE \in Range(c) THEN strip_ansi(c) ELSE c
          /\ rlpc' = "q_lock"
          /\ reads' = reads + 1
          /\ UNCHANGED errq
       \/ /\ dev.errors
          /\ reads < dev.maxReads
          /\ errq' = Append(errq, "read_error")
          /\ rlpc' = "sleep"
          /\ reads' = reads + 1
          /\ UNCHANGED rlbuf
    /\ loc' = LateRead(loc)
    /\ UNCHANGED <<queue, depth, doneq, lockLoopQuiet>>

\* queue.lock() returns
Loop_LockQueue ==
    /\ rlpc = "q_lock"
    /\ QueueLockFree
    /\ rlpc' = "q_held"
    /\ UNCHANGED <<queue, depth, errq, doneq, rlbuf, reads, lockLoopKeeps>>

\* unlocked_queue.enqueue(b); drop(unlocked_queue)
Loop_Enqueue ==
    /\ rlpc = "q_held"
    /\ queue' = enqueue(queue, rlbuf)
    /\ depth' = depth + 1
    /\ rlbuf' = <<>>
    /\ rlpc' = "sleep"
    /\ loc' = LateEnqueue(loc)
    /\ UNCHANGED <<errq, doneq, reads, lockLoopQuiet>>

\* mutant of Loop_Sleep: the loop goes on without try_recv
Loop_SleepNoCheck ==
    /\ rlpc = "sleep"
    /\ rlpc' = "t_lock"
    /\ UNCHANGED <<queue, depth, errq, doneq, rlbuf, reads, lockLoopKeeps>>

\* thread::sleep(read_delay)
Loop_Sleep ==
    /\ rlpc = "sleep"
    /\ rlpc' = "check"
    /\ UNCHANGED <<queue, depth, errq, doneq, rlbuf, reads, lockLoopKeeps>>

LoopLocks ==
    \/ Loop_TryRecvDone \/ Loop_LockTransport \/ Loop_TransportRead
    \/ Loop_LockQueue \/ Loop_Enqueue \/ Loop_Sleep

\* Channel::read up to queue.lock(): a pending error is returned at once
User_ReadStart ==
    /\ pc \in {"idle", "closed"}
    /\ loc.calls < MaxCalls
    /\ loc' = [loc EXCEPT !.calls = @ + 1, !.after = pc]
    /\ IF errq # <<>>
       THEN /\ errq' = Tail(errq)
            /\ result' = Err(Head(errq))
            /\ UNCHANGED pc
       ELSE /\ pc' = "r_lock"
            /\ UNCHANGED <<errq, result>>
    /\ UNCHANGED <<queue, depth, doneq, topen, written, lockUserKeeps>>

\* queue.lock() returns
User_LockQueue ==
    /\ pc = "r_lock"
    /\ QueueLockFree
    /\ pc' = "r_held"
    /\ UNCHANGED <<queue, depth, errq, doneq, topen, written, result, loc, lockUserKeeps>>

\* get_depth, dequeue, and the guard dropped at the return
User_Dequeue ==
    /\ pc = "r_held"
    /\ IF depth = 0
       THEN /\ result' = Ok(<<>>)
            /\ UNCHANGED <<queue, depth>>
       ELSE /\ result' = Ok(dequeue(queue).val)
            /\ queue' = dequeue(queue).rest
            /\ depth' = depth - 1
    /\ pc' = loc.after
    /\ UNCHANGED <<errq, doneq, topen, written, loc, lockUserKeeps>>

\* Channel::write is called
User_WriteStart ==
    /\ pc = "idle"
    /\ loc.calls < MaxCalls
    /\ loc' = [loc EXCEPT !.calls = @ + 1]
    /\ pc' = "w_lock"
    /\ UNCHANGED <<queue, depth, errq, doneq, topen, written, result, lockUserKeeps>>

\* Channel::close is called: the done signal is sent
User_CloseSignal ==
    /\ pc = "idle"
    /\ doneq' = Append(doneq, TRUE)
    /\ pc' = "c_lock"
    /\ UNCHANGED <<queue, depth, errq, topen, written, result, loc, lockUserKeeps>>

\* transport.lock() returns in write or close
User_LockTransport ==
    /\ pc \in {"w_lock", "c_lock"}
    /\ TransportLockFree
    /\ pc' = IF pc = "w_lock" THEN "w_held" ELSE "c_held"
    /\ UNCHANGED <<queue, depth, errq, doneq, topen, written, result, loc, lockUserKeeps>>

\* unlocked_transport.write(b) and the end of the match arm
User_Write ==
    /\ pc = "w_held"
    /\ \/ /\ written' = Append(written, <<"show">>)
          /\ result' = Ok(<<>>)
       \/ /\ dev.errors
          /\ result' = Err("write_error")
          /\ UNCHANGED written
    /\ pc' = "idle"
    /\ UNCHANGED <<queue, depth, errq, doneq, topen, loc, lockUserKeeps>>

\* unlocked_transport.close() and the end of the match arm
User_Close ==
    /\ pc = "c_held"
    /\ topen' = FALSE
    /\ result' = Ok(<<>>)
    /\ pc' = "closed"
    /\ UNCHANGED <<queue, depth, errq, doneq, written, loc, lockUserKeeps>>

UserLocks ==
    \/ User_ReadStart \/ User_LockQueue \/ User_Dequeue
    \/ User_WriteStart \/ User_CloseSignal \/ User_LockTransport
    \/ User_Write \/ User_Close

LockReads == 3

LockChunks == {<<"r">>, <<"#">>}

InitLocks ==
    /\ InitChannel
    /\ InitNoDriver
    /\ \E errors \in BOOLEAN : dev = Device(LockChunks, LockReads, errors, FALSE)
    /\ args = DefaultArgs
    /\ opt = DefaultOptions
    /\ op = "locks"
    /\ pc = "idle"
    /\ loc = [calls |-> 0, after |-> "idle", late_reads |-> 0,
              late_enqueues |-> 0, read_closed |-> FALSE]

NextLocks == LoopLocks \/ UserLocks

\* the threads are scheduled fairly, a thread that owns a guard goes on to
\* drop it (Transport calls return), and a thread blocked in lock() gets the
\* mutex when it is released again and again: the Read Loop sleeps read_delay
\* between two of its lock() calls
SpecLocks ==
    /\ InitLocks
    /\ [][NextLocks]_vars
    /\ WF_vars(LoopLocks)
    /\ WF_vars(User_Dequeue \/ User_Write \/ User_Close)
    /\ SF_vars(User_LockTransport \/ User_LockQueue)

\* C25: once close has sent the done signal the Read Loop exits, and after
\* its exit nothing is enqueued any more; the one signal is enough
C25_ReadLoopExitsAfterDone ==
    /\ (doneq # <<>>) ~> (rlpc = "exited")
    /\ [][rlpc = "exited" => /\ rlpc' = "exited"
                             /\ Len(queue') <= Len(queue)
                             /\ reads' = reads]_vars
    /\ [](Len(doneq) <= 1)

C25_Witness ==
    /\ rlpc = "exited"
    /\ pc = "closed"
    /\ doneq = <<>>
    /\ queue # <<>>

LoopBlocked ==
    \/ rlpc = "t_lock" /\ ~TransportLockFree
    \/ rlpc = "q_lock" /\ ~QueueLockFree

UserBlocked ==
    \/ pc \in {"w_lock", "c_lock"} /\ ~TransportLockFree
    \/ pc = "r_lock" /\ ~QueueLockFree

C26_ReadErrorPublishedAndReturned ==
    [][/\ (Len(errq') > Len(errq)) =>
             /\ errq' = Append(errq, "read_error")
             /\ rlpc = "read" /\ rlpc' = "check"
             /\ queue' = queue
       /\ (errq # <<>> /\ errq' = Tail(errq)) =>
             /\ result' = Err(Head(errq))
             /\ pc' = "done"
             /\ queue' = queue
             /\ written' = written]_vars

C26_Witness ==
    /\ op \in {"send_input", "send_interactive"}
    /\ pc = "done"
    /\ result = Err("read_error")
    /\ written # <<>>
    /\ queue # <<>>
    /\ rlpc # "exited"

\* ---------------------------------------------------------------------------
\* util::bytes on its own: the functions applied to every pair of byte
\* sequences up to MaxBytes bytes

MaxBytes == 3

ByteAlphabet == {"r", "m", NEW_LINE_BYTE}

ByteSeqs == UNION {[1..n -> ByteAlphabet] : n \in 0..MaxBytes}

Cutsets == {<<>>, <<NEW_LINE_BYTE>>, <<NEW_LINE_BYTE, "r">>}

BytesFunctions == {"roughly_contains", "trim_cutset_left", "trim_cutset_right", "trim_cutset"}

InitBytes ==
    /\ InitChannel
    /\ InitNoDriver
    /\ dev = Device({}, 0, FALSE, FALSE)
    /\ args = DefaultArgs
    /\ opt = DefaultOptions
    /\ pc = "call"
    /\ \E f \in BytesFunctions :
          /\ op = f
          /\ \E a \in ByteSeqs :
             \E b \in (IF f = "roughly_contains" THEN ByteSeqs ELSE Cutsets) :
                loc = [a |-> a, b |-> b]

\* roughly_contains(input, output)
CallRoughlyContains ==
    /\ op = "roughly_contains"
    /\ pc = "call"
    /\ result' = Ok(roughly_contains(loc.a, loc.b))
    /\ pc' = "done"
    /\ UNCHANGED <<chanVars, written, delivered, cfgVars, op, loc, now>>

\* trim_cutset_left(b, cutset), trim_cutset_right(b, cutset) or
\* trim_cutset(b, cutset); the expect of trim_cutset_right panics
CallTrim ==
    /\ op \in {"trim_cutset_left", "trim_cutset_right", "trim_cutset"}
    /\ pc = "call"
    /\ result' = CASE op = "trim_cutset_left" -> Ok(trim_cutset_left(loc.a, loc.b))
                   [] op = "trim_cutset" -> Ok(trim_cutset(loc.a, loc.b))
                   [] op = "trim_cutset_right" ->
                         IF trim_cutset_right_panics(loc.a, loc.b)
                         THEN [kind |-> "panic", val |-> <<>>,
                               msg |-> "no char in rposition"]
                         ELSE Ok(trim_cutset_right(loc.a, loc.b))
    /\ pc' = "done"
    /\ UNCHANGED <<chanVars, written, delivered, cfgVars, op, loc, now>>

NextBytes == CallRoughlyContains \/ CallTrim

SpecBytes == InitBytes /\ [][NextBytes]_vars

\* C28: roughly_contains(needle, haystack) is true exactly when needle is a
\* subsequence of haystack
C28_RoughlyContainsIsSubsequence ==
    (op = "roughly_contains" /\ pc = "done") =>
        result = Ok(IsSubsequence(loc.a, loc.b))

\* C29: trim_cutset_left, trim_cutset_right and trim_cutset return a value
\* for every b and cutset, and trim_cutset(b, c) is
\* trim_cutset_left(trim_cutset_right(b, c), c)
C29_TrimsReturnAndCompose ==
    (op \in {"trim_cutset_left", "trim_cutset_right", "trim_cutset"} /\ pc = "done") =>
        /\ result.kind = "ok"
        /\ op = "trim_cutset" =>
              /\ ~trim_cutset_right_panics(loc.a, loc.b)
              /\ result.val = trim_cutset_left(trim_cutset_right(loc.a, loc.b), loc.b)

\* ---------------------------------------------------------------------------
\* util::queue on its own: any sequence of enqueue, requeue and dequeue calls
\* on a Queue of at most MaxDepth chunks.  `produced` is the double-ended
\* sequence the Queue is compared with and `delivered` what that sequence
\* gives at its front.

MaxDepth == 3

QueueChunks == {<<>>, <<"r">>, <<"m", "#">>}

InitQueue ==
    /\ InitChannel
    /\ InitNoDriver
    /\ dev = Device({}, 0, FALSE, FALSE)
    /\ args = DefaultArgs
    /\ opt = DefaultOptions
    /\ op = "new"
    /\ pc = "idle"
    /\ loc = NoLoc

queueKeeps == <<errq, doneq, rlpc, rlbuf, topen, written, reads, now, cfgVars, pc, loc>>

\* Queue::enqueue
QueueEnqueue ==
    /\ depth < MaxDepth
    /\ \E b \in QueueChunks :
          /\ queue' = enqueue(queue, b)
          /\ produced' = produced \o <<b>>
    /\ depth' = depth + 1
    /\ op' = "enqueue"
    /\ result' = NoResult
    /\ UNCHANGED <<delivered, queueKeeps>>

\* Queue::requeue
QueueRequeue ==
    /\ depth < MaxDepth
    /\ \E b \in QueueChunks :
          /\ queue' = requeue(queue, b)
          /\ produced' = <<b>> \o produced
    /\ depth' = depth + 1
    /\ op' = "requeue"
    /\ result' = NoResult
    /\ UNCHANGED <<delivered, queueKeeps>>

\* Queue::dequeue: the empty chunk at depth zero, else pop_front and depth - 1
QueueDequeue ==
    /\ IF depth = 0
       THEN /\ result' = Ok(<<>>)
            /\ UNCHANGED <<queue, depth>>
       ELSE /\ result' = Ok(dequeue(queue).val)
            /\ queue' = dequeue(queue).rest
            /\ depth' = depth - 1
    /\ produced' = SubSeq(produced, 2, Len(produced))
    /\ delivered' = IF produced = <<>> THEN <<<<>>>> ELSE <<produced[1]>>
    /\ op' = "dequeue"
    /\ UNCHANGED queueKeeps

NextQueue == QueueEnqueue \/ QueueRequeue \/ QueueDequeue

SpecQueue == InitQueue /\ [][NextQueue]_vars

\* C30: after any sequence of enqueue, requeue and dequeue calls the Queue
\* holds the chunks of the double-ended sequence in its order (enqueue at the
\* back, requeue at the front, dequeue from the front), dequeue returns that
\* sequence's front chunk, or the empty chunk with nothing changed when there
\* is none, and get_depth is the number of chunks held
C30_QueueIsDeque ==
    /\ queue = produced
    /\ depth = Len(queue)
    /\ op = "dequeue" => result = Ok(delivered[1])

C30_Witness ==
    /\ op = "dequeue"
    /\ result = Ok(<<"r">>)
    /\ queue = <<<<"m", "#">>, <<>>>>
    /\ depth = 2

\* ---------------------------------------------------------------------------
\* Channel::process_output on its own: every buffer of up to MaxOut bytes in
\* which the prompt pattern is found, with strip_prompt on and off.  "!" is a
\* byte of command output, "r" a byte a prompt can hold, "#" a prompt end.

MaxOut == 5

OutAlphabet == {"!", "r", "#", "\r", NEW_LINE_BYTE}

OutBuffers ==
    {b \in UNION {[1..n -> OutAlphabet] : n \in 1..MaxOut} : PromptMatch(b)}

\* `IOS 15.2` CR LF `R1#`
IosOutput == <<"!", "\r", NEW_LINE_BYTE, "r", "#">>

InitOutput ==
    /\ InitChannel
    /\ InitNoDriver
    /\ dev = Device({}, 0, FALSE, FALSE)
    /\ args = DefaultArgs
    /\ opt = DefaultOptions
    /\ op = "process_output"
    /\ pc = "call"
    /\ \E b \in OutBuffers, strip_prompt \in BOOLEAN :
          loc = [b |-> b, strip_prompt |-> strip_prompt]

\* process_output(b, strip_prompt) as send_input_bytes calls it once the
\* prompt has been found
CallProcessOutput ==
    /\ op = "process_output"
    /\ pc = "call"
    /\ result' = IF process_output_panics(loc.b)
                 THEN [kind |-> "panic", val |-> <<>>, msg |-> "no char in rposition"]
                 ELSE Ok(process_output(loc.b, loc.strip_prompt))
    /\ pc' = "done"
    /\ UNCHANGED <<chanVars, written, delivered, cfgVars, op, loc, now>>

NextOutput == CallProcessOutput

SpecOutput == InitOutput /\ [][NextOutput]_vars

\* C31: with strip_prompt, post-processing yields a result for every buffer
\* in which the prompt was found; the result holds no occurrence of the
\* prompt and no line terminator at either end, and for `IOS 15.2` CR LF
\* `R1#` it is `IOS 15.2`
C31_StripPromptResult ==
    (op = "process_output" /\ pc = "done" /\ loc.strip_prompt) =>
        /\ result.kind = "ok"
        /\ ~PromptMatch(result.val)
        /\ result.val # <<>> =>
              /\ result.val[1] \notin {"\r", NEW_LINE_BYTE}
              /\ result.val[Len(result.val)] \notin {"\r", NEW_LINE_BYTE}
        /\ loc.b = IosOutput => result.val = <<"!">>

\* the three ways it fails, one at a time
C31_AlwaysAResult ==
    (op = "process_output" /\ pc = "done" /\ loc.strip_prompt) => result.kind = "ok"

C31_IosExample ==
    (op = "process_output" /\ pc = "done" /\ loc.strip_prompt /\ loc.b = IosOutput) =>
        result = Ok(<<"!">>)

C31_EveryPromptRemoved ==
    (op = "process_output" /\ pc = "done" /\ loc.strip_prompt /\ result.kind = "ok") =>
        ~PromptMatch(result.val)

\* ---------------------------------------------------------------------------
\* send_input from the write of the input on, against a device that sends the
\* echo and then output and prompt cut into chunks at any byte.  `delivered`
\* records the chunks the call takes from the queue.

SplitReads == 3

SplitChunks == {<<"r", "m">>, <<"!", NEW_LINE_BYTE, "r">>, <<NEW_LINE_BYTE, "r">>, <<"#">>}

RECURSIVE Flatten(_)
Flatten(chunks) ==
    IF chunks = <<>> THEN <<>> ELSE Head(chunks) \o Flatten(Tail(chunks))

InitSplit ==
    /\ InitChannel
    /\ InitNoDriver
    /\ args = DefaultArgs
    /\ opt = DefaultOptions
    /\ \E errors \in BOOLEAN : dev = Device(SplitChunks, SplitReads, errors, TRUE)
    /\ op = "send_input"
    /\ pc = "si_write"
    /\ loc = [SendLoc EXCEPT !.input = TheInput]

NextSplit ==
    \/ ReadLoop
    \/ Tick
    \/ SendInput

SpecSplit == InitSplit /\ [][NextSplit]_vars

\* what the call has taken from the queue since it wrote the return
ReadSinceReturn ==
    IF loc.phase = "prompt"
    THEN Flatten(SubSeq(delivered, loc.mark + 1, Len(delivered)))
    ELSE <<>>

\* two consecutive chunks, neither matching alone, that together match
SplitPromptRead ==
    /\ loc.phase = "prompt"
    /\ Len(delivered) = loc.mark + 2
    /\ ~PromptMatch(delivered[loc.mark + 1])
    /\ ~PromptMatch(delivered[loc.mark + 2])
    /\ PromptMatch(delivered[loc.mark + 1] \o delivered[loc.mark + 2])

\* C32: once send_input has read, after the return, two chunks over which the
\* prompt is split, the prompt is detected and the call has returned its
\* result
C32_SplitPromptReturnsResult ==
    (op = "send_input" /\ SplitPromptRead) =>
        /\ pc = "done"
        /\ result.kind = "ok"

\* the part that holds: the buffer accumulates over the polls and the prompt
\* is detected at the poll that reads the second chunk
C32_SplitPromptDetected ==
    (op = "send_input" /\ SplitPromptRead) =>
        /\ pc = "done"
        /\ loc.rb = ReadSinceReturn
        /\ result.kind \in {"ok", "panic"}

\* ---------------------------------------------------------------------------
\* C33: the queue never holds an empty chunk: a Transport read that is empty,
\* or empty once its ANSI sequences are stripped, is not enqueued
C33_NoEmptyChunkEnqueued ==
    /\ \A i \in 1..Len(queue) : queue[i] # <<>>
    /\ rlpc = "enqueue" => rlbuf # <<>>

\* ---------------------------------------------------------------------------
\* send_interactive with one event against a device that sends the echo, some
\* output and the prompt; `delivered` records the chunks the call takes from
\* the queue.

ConsumeReads == 3

ConsumeChunks == {<<"r">>, <<"!">>, <<"r", "#">>}

InitConsume ==
    /\ InitChannel
    /\ InitNoDriver
    /\ args = DefaultArgs
    /\ opt = DefaultOptions
    /\ \E errors \in BOOLEAN : dev = Device(ConsumeChunks, ConsumeReads, errors, TRUE)
    /\ op = "send_interactive"
    /\ pc = "sx_start"
    /\ loc = [SendLoc EXCEPT !.events = <<Event(<<"r">>, Pat("empty", ""), FALSE)>>]

NextConsume ==
    \/ ReadLoop
    \/ Tick
    \/ SendInteractive

SpecConsume == InitConsume /\ [][NextConsume]_vars

\* C34: the buffer send_interactive returns is the in-order concatenation of
\* the chunks it took from the queue during the call, each byte once
C34_ResultIsWhatWasConsumed ==
    (op = "send_interactive" /\ pc = "done" /\ result.kind = "ok") =>
        result.val = Flatten(delivered)

\* ---------------------------------------------------------------------------
\* update_privileges called again and again on a driver of MaxLevels levels,
\* each with any previous level: none, a configured one, or the name "root"
\* that no level has.

MaxUpdates == 2

InitPrivileges ==
    /\ InitChannel
    /\ dev = Device({}, 0, FALSE, FALSE)
    /\ args = DefaultArgs
    /\ opt = DefaultOptions
    /\ net = NoNet
    /\ op = "update_privileges"
    /\ pc = "idle"
    /\ loc = [calls |-> 0]
    /\ \E previous \in [GraphNames -> GraphNames \cup {"", "root"}] :
          drv = NetworkDriver(
                    [i \in 1..MaxLevels |-> BareLevel(AllNames[i], previous[AllNames[i]])],
                    "exec", <<>>, "none", "none", "none", "none")

\* Driver::update_privileges: build_privilege_level_graph on the graph as it
\* is, then build_joined_prompt_pattern
UpdatePrivileges ==
    /\ op = "update_privileges"
    /\ loc.calls < MaxUpdates
    /\ drv' = [drv EXCEPT !.privilege_level_graph =
                             build_privilege_level_graph(drv.privilege_levels, @)]
    /\ args' = [args EXCEPT !.prompt_pattern =
                               build_joined_prompt_pattern(drv.privilege_levels)]
    /\ loc' = [loc EXCEPT !.calls = @ + 1]
    /\ result' = Ok(<<>>)
    /\ UNCHANGED <<chanVars, written, delivered, now, dev, opt, net, op, pc>>

NextPrivileges == UpdatePrivileges

SpecPrivileges == InitPrivileges /\ [][NextPrivileges]_vars

\* C35: after update_privileges, called once or several times on the same
\* levels, every configured level is a key of the graph, the graph is
\* symmetric, and b is a neighbour of a exactly when a previous link joins
\* them
C35_GraphSymmetricExactEdges ==
    (op = "update_privileges" /\ loc.calls >= 1) =>
        LET g == drv.privilege_level_graph
        IN /\ LevelNames(drv.privilege_levels) \subseteq DOMAIN g
           /\ \A a \in DOMAIN g : g[a] \subseteq DOMAIN g
           /\ \A a \in DOMAIN g : \A b \in DOMAIN g :
                 /\ b \in g[a] <=> a \in g[b]
                 /\ b \in g[a] <=> Adjacent(drv.privilege_levels, a, b)

C35_Witness ==
    /\ op = "update_privileges"
    /\ loc.calls = 2
    /\ "root" \in DOMAIN drv.privilege_level_graph
    /\ drv.privilege_level_graph["root"] = {"exec", "tclsh"}
    /\ drv.privilege_level_graph["privilege_exec"] = {"privilege_exec", "configuration"}

\* C36: acquire_privilege_level with a target that is not a key of the
\* privilege graph returns an error at once: nothing is written (not even
\* the return of get_prompt), no prompt is fetched, and
\* current_privilege_level stays as it was
C36_InvalidTargetFailsAtOnce ==
    [][(pc = "aq_start" /\ loc.target \notin DOMAIN drv.privilege_level_graph) =>
          /\ pc' = "done"
          /\ result' = Err("is not a valid privilege level")
          /\ written' = written
          /\ net' = net
          /\ drv' = drv]_vars

C36_Witness ==
    /\ op = "acquire_privilege_level"
    /\ pc = "done"
    /\ loc.target \notin DOMAIN drv.privilege_level_graph
    /\ result = Err("is not a valid privilege level")
    /\ drv.current_privilege_level \in LevelNames(drv.privilege_levels)

\* ---------------------------------------------------------------------------
\* The tracked level: the sessions of the driver specification, and a
\* session on a platform whose tclsh level has no previous level (no path
\* joins it to the other levels) with a device that shows the exec or the
\* tclsh prompt.

IslandLevels == [IosLevels EXCEPT ![4].previous_privilege_level = ""]

IslandPrompts == {<<"r", ">">>, <<"r", "t", "#">>}

TrackedScenarios ==
    DriverScenarios
    \cup {DriverScenario(NetworkDriver(IslandLevels, "exec", <<>>,
                                       "none", "none", "none", "none"),
                         NetDevice("arbitrary", "", IslandPrompts), FALSE)}

InitTracked ==
    /\ queue = <<>>
    /\ depth = 0
    /\ errq = <<>>
    /\ doneq = <<>>
    /\ rlpc = "check"
    /\ rlbuf = <<>>
    /\ topen = FALSE
    /\ written = <<>>
    /\ reads = 0
    /\ now = 0
    /\ produced = <<>>
    /\ delivered = <<>>
    /\ result = NoResult
    /\ args = DefaultArgs
    /\ opt = NetOptions("")
    /\ op = "none"
    /\ pc = "idle"
    /\ loc = DrvLoc(0)
    /\ \E s \in TrackedScenarios :
          /\ drv = s.drv
          /\ net = s.net
          /\ dev = Device({}, 0, s.errors, FALSE)

SpecTracked == InitTracked /\ [][NextDriver]_vars

\* C37: current_privilege_level is empty, "unknown", or the level the last
\* prompt classified by acquire_privilege_level was classified as (no
\* escalate or de-escalate command written since)
C37_TrackedLevelIsLastClassified ==
    \/ drv.current_privilege_level \in {"", "unknown"}
    \/ drv.current_privilege_level = net.examined

\* C37, second part: current_privilege_level is "unknown" when an escalate
\* or de-escalate command is written
C37_UnknownBeforeCommand ==
    [][(pc = "aq_act" /\ written' # written) =>
          drv.current_privilege_level = "unknown"]_vars

\* C37, third part: acquire_privilege_level returns Ok only with
\* current_privilege_level equal to the target
C37_OkMeansTarget ==
    (op = "acquire_privilege_level" /\ pc = "done" /\ result.kind = "ok") =>
        drv.current_privilege_level = loc.target

\* C38: between the done signal sent by close and its exit the Read Loop
\* makes at most one Transport read and at most one enqueue, in every
\* interleaving of the two threads
C38_AtMostOneLateReadAndEnqueue ==
    op = "locks" => /\ loc.late_reads <= 1
                    /\ loc.late_enqueues <= 1

\* the read made after the done signal was made on the closed Transport
C38_Witness ==
    /\ op = "locks"
    /\ rlpc = "exited"
    /\ pc = "closed"
    /\ loc.late_reads = 1
    /\ loc.read_closed

\* C39: a Channel.read made while a Read Loop error is pending returns the
\* oldest pending error and leaves the queue as it is; an error leaves the
\* error channel only by the read that returns it; and with no error pending
\* (the Read Loop running) a read returns the front chunk of the queue, so
\* the chunks enqueued before the failure come out in their order
C39_PendingErrorLeavesQueue ==
    [][/\ (loc'.calls = loc.calls + 1 /\ errq # <<>>) =>
             /\ result' = Err(Head(errq))
             /\ errq' = Tail(errq)
             /\ queue' = queue
             /\ depth' = depth
             /\ delivered' = delivered
       /\ Len(errq') < Len(errq) =>
             /\ loc'.calls = loc.calls + 1
             /\ result' = Err(Head(errq))
       /\ (loc'.calls = loc.calls + 1 /\ errq = <<>> /\ rlpc # "exited" /\ queue # <<>>) =>
             /\ result' = Ok(Head(queue))
             /\ queue' = Tail(queue)
             /\ depth' = depth - 1]_vars

\* a read has returned the first of two pending errors, the chunk enqueued
\* before the failures is still queued
C39_Witness ==
    /\ op = "read"
    /\ result = Err("read_error")
    /\ errq = <<"read_error">>
    /\ queue = <<<<"r">>>>
    /\ depth = 1
    /\ delivered = <<>>

\* C40: when the callable run by the generic driver's close returns an
\* error, close returns that error and the Channel stays open: no done
\* signal is sent, the Read Loop is left running and the Transport is not
\* closed
C40_CloseCallableErrorLeavesChannelOpen ==
    [][(pc = "generic_close" /\ close_callable(drv) = "err") =>
          /\ pc' = "done"
          /\ result' = Err("callable failed")
          /\ doneq' = doneq
          /\ topen' = topen
          /\ rlpc' = rlpc /\ rlpc' # "exited"
          /\ net'.opened
          /\ \A i \in 1..Len(net'.log) : net'.log[i].ev # "channel.close"]_vars

C40_Witness ==
    /\ op \in {"close", "generic.close"}
    /\ pc = "done"
    /\ close_callable(drv) = "err"
    /\ result = Err("callable failed")
    /\ net.log[Len(net.log)] = Ev("generic.on_open", "")
    /\ doneq = <<>>
    /\ topen
    /\ net.opened

====
